---- MODULE Spec2Model ----
(***************************************************************************)
(* A model of the workflow execution engine of callie-integrations:        *)
(* src/src/callie/engine/workflow_engine.py (WorkflowEngine and            *)
(* WorkflowExecutionContext) over the configuration records of             *)
(* src/src/callie/models/stages.py and the connector classes of            *)
(* src/src/callie/connectors/.                                             *)
(*                                                                         *)
(* One behaviour of the model is one call of execute_workflow: the         *)
(* workflow is the input fixed by Init, every action is one step of the    *)
(* driver loop or one activation of the recursive _execute_stage.          *)
(***************************************************************************)
EXTENDS Integers, Sequences, FiniteSets, TLC

VARIABLES
    workflow,            \* the WorkflowConfig passed to execute_workflow
    remote,              \* what the external services hold (read by connectors)
    pc,                  \* position of the driver: init, loop, retry, exit, done, raised
    idx,                 \* 1-based index of the stage the for-loop is at
    depth,               \* active _execute_stage frames (recursion depth)
    context_bound,       \* whether the local name `context` has been assigned
    ctx_variables,       \* WorkflowExecutionContext.variables
    ctx_stage_results,   \* WorkflowExecutionContext.stage_results
    ctx_connectors,      \* WorkflowExecutionContext.connectors (slot -> class name)
    execution,           \* the WorkflowExecution record being built
    dispatches,          \* per stage id: how often the type dispatch was entered
    calls,               \* connector methods invoked so far, with their arguments
    integration_configs, \* WorkflowEngine.integration_configs (the credential cache)
    secret_service,      \* WorkflowEngine.secret_service and its _cache
    suspended,           \* the locals of the runs of other threads on this engine
    mapped,              \* a call of FieldTransformer.map_item_list and its result
    initial_variables,   \* the initial_variables argument of the running call
    clock                \* the system clock, in seconds: int(time.time())

vars == <<workflow, remote, pc, idx, depth, context_bound, ctx_variables,
          ctx_stage_results, ctx_connectors, execution, dispatches, calls,
          integration_configs, secret_service, suspended, mapped,
          initial_variables, clock>>

-----------------------------------------------------------------------------
(* Bounds of the model *)

\* Largest retry_count a stage configuration of the model carries.
MaxRetry == 1

\* The interpreter's recursion limit (sys.getrecursionlimit(), 1000 in
\* CPython), scaled down: the number of nested _execute_stage frames at which
\* one more recursive call raises RecursionError.
RecursionLimit == 4

\* Longest input list of a filter stage.
MaxItems == 3

\* Longest list of values a filter stage's value_from_variable names.
MaxValues == 2

\* Longest list of items and longest list of field mappings given to
\* map_item_list.
MaxMapItems == 2
MaxMappings == 2

\* Longest input list of a transform or map_fields stage.
MaxDataItems == 2

\* Seconds the system clock advances during the runs of the model.
MaxClock == 1

-----------------------------------------------------------------------------
(* Python values.  Every value is a record [kind, elems]; a list holds its   *)
(* elements, a scalar holds one element.  An element is a function from      *)
(* field names to strings: a dict item maps its keys, a scalar element maps  *)
(* the reserved name "$" to its value.                                       *)

None == "<None>"

Scalar(s) == [f \in {"$"} |-> s]
IsDict(e) == "$" \notin DOMAIN e

Absent    == [kind |-> "absent", elems |-> <<>>]   \* key not in the dict
Null      == [kind |-> "null",   elems |-> <<>>]   \* Python None
Str(s)    == [kind |-> "str",    elems |-> <<Scalar(s)>>]

\* A string built by substitution is the sequence of its pieces: literal
\* text, or the text of a placeholder {name} or {len(name)}.
Lit(s)   == [t |-> "lit", s |-> s]
Var(n)   == [t |-> "var", s |-> n]
LenOf(n) == [t |-> "len", s |-> n]
Text(pieces) == [kind |-> "text", elems |-> pieces]

\* The pieces of the strings of the model that hold placeholders; any other
\* string is one literal piece.
Pieces(s) ==
    CASE s = "" -> <<>>
      [] s = "Found {len(x)} items" -> <<Lit("Found "), LenOf("x"), Lit(" items")>>
      [] s = "{x}" -> <<Var("x")>>
      [] s = "{y}" -> <<Var("y")>>
      [] s = "{x} {y}" -> <<Var("x"), Lit(" "), Var("y")>>
      [] s = "{y} {x}" -> <<Var("y"), Lit(" "), Var("x")>>
      [] s = "{len(x)} {len(y)}" -> <<LenOf("x"), Lit(" "), LenOf("y")>>
      [] OTHER -> <<Lit(s)>>

\* str(value): the string itself, "None" for None, and for a list the text
\* of its repr as one literal piece.
str(value) ==
    CASE value.kind = "str" -> Pieces(value.elems[1]["$"])
      [] value.kind = "text" -> value.elems
      [] value.kind = "null" -> <<Lit("None")>>
      [] OTHER -> <<Lit(ToString(value.elems))>>
List(seq) == [kind |-> "list",   elems |-> seq]
\* A dict value (an object): its one element is the dict.
Object(item) == [kind |-> "object", elems |-> <<item>>]

\* Python truthiness of a value (bool(v)).
Truthy(v) ==
    CASE v.kind \in {"list", "text"} -> Len(v.elems) > 0
      [] v.kind = "str"  -> v.elems[1]["$"] # ""
      [] v.kind = "object" -> DOMAIN v.elems[1] # {}
      [] OTHER           -> FALSE

\* dict.get(key): the value, or None when the key is absent.
DictGet(item, field) == IF field \in DOMAIN item THEN item[field] ELSE None

SeqsUpTo(S, n) == UNION {[1..k -> S] : k \in 0..n}

VarNames == {"flag", "items", "existing", "new_items", "api_key", "x", "y"}

\* The key order of context.variables (a dict keeps insertion order): the
\* workflows of the model declare their variables in this order.  The order
\* matters to the log stage only, and only for messages with placeholders.
VariableOrder == <<"flag", "items", "existing", "new_items", "api_key", "x", "y">>

NoVariables == [v \in VarNames |-> Absent]

-----------------------------------------------------------------------------
(* Configuration records: StageConfig and WorkflowConfig (models/stages.py) *)

\* StageErrorStrategy
FAIL     == "fail"
SKIP     == "skip"
CONTINUE == "continue"
RETRY    == "retry"

\* stage.parameters with none of the keys the engine reads.
\* start and end hold the defaults the slice transform reads them with (0 and
\* 5), mappings the default of map_fields (an empty dict).
NoParameters ==
    [field |-> None, value_from_variable |-> None, value |-> Null,
     filter_type |-> None, values_variable |-> None, message |-> None,
     api_key |-> None, warehouse_id |-> None, self |-> None,
     transform_type |-> None, start |-> 0, end |-> 5,
     mappings |-> [k \in {} |-> ""], variable_name |-> None]

\* A StageConfig with the pydantic defaults of every field but id and type.
StageConfig(id, type) ==
    [id |-> id, type |-> type, enabled |-> TRUE,
     connector |-> None, method |-> None, credentials_key |-> None,
     parameters |-> NoParameters,
     input_variables |-> <<>>, output_variable |-> None,
     depends_on |-> {}, condition |-> <<>>,
     error_strategy |-> FAIL, retry_count |-> 0]

\* Stage ids are unique within a workflow: stage i of the list has id StageId(i).
StageId(i) == <<"s1", "s2", "s3">>[i]
StageIds == {"s1", "s2", "s3"}

\* connector_classes of WorkflowEngine.__init__: service type -> class.
connector_classes ==
    [t \in {"shipstation", "infiplex"} |->
        IF t = "shipstation" THEN "ShipStationConnector" ELSE "InfiPlexConnector"]

\* BaseConnector declares _validate_credentials with @abstractmethod
\* (connectors/base.py 59-62) and neither ShipStationConnector nor
\* InfiPlexConnector defines it (connectors/infiplex.py 15-20 drops it), so
\* both classes are abstract: calling the class raises TypeError.
AbstractMethods(class) ==
    IF class \in {"ShipStationConnector", "InfiPlexConnector"}
    THEN {"_validate_credentials"} ELSE {}

\* No call of FieldTransformer.map_item_list.
NoMapping ==
    [source_items |-> <<>>, field_mappings |-> <<>>, returned |-> FALSE,
     result |-> <<>>]

-----------------------------------------------------------------------------
(* The stage interpreter's helpers (WorkflowEngine, workflow_engine.py)     *)

\* Python falsiness of an optional string: None or "".
Falsy(s) == s \in {None, ""}

\* context.get_variable(name): the value, None when the key is absent.
get_variable(variables, name) ==
    IF name \in DOMAIN variables /\ variables[name].kind # "absent"
    THEN variables[name] ELSE Null

\* What a stage handler does: it returns `output`, or raises with message
\* `error`; `variables` is the context's variable map when it ends.
\* `calls` are the connector methods it invoked.
Returned(output, variables) ==
    [raised |-> FALSE, error |-> <<>>, output |-> output,
     variables |-> variables, calls |-> <<>>]
Raised(error, variables) ==
    [raised |-> TRUE, error |-> error, output |-> Null,
     variables |-> variables, calls |-> <<>>]

\* A condition string: <<>> for None, <<"exists:", v>> for "exists:" + v,
\* <<c>> for any other string c.
NoCondition == <<>>
Exists(v) == <<"exists:", v>>

\* _evaluate_condition answering True whatever the condition.
_evaluate_condition_ignored(condition, variables) == TRUE

\* _evaluate_condition (lines 490-498): "exists:<var>" holds when the variable
\* is in the context and truthy; any other condition holds.
_evaluate_condition(condition, variables) ==
    IF Len(condition) = 2 /\ condition[1] = "exists:"
    THEN /\ condition[2] \in DOMAIN variables
         /\ variables[condition[2]].kind # "absent"
         /\ Truthy(variables[condition[2]])
    ELSE TRUE

\* _check_dependencies answering True whatever the stage depends on.
_check_dependencies_unchecked(stage_, stage_results) == TRUE

\* _check_dependencies counting every recorded result, whatever its status.
_check_dependencies_any_status(stage_, stage_results) ==
    \A dep_id \in stage_.depends_on :
        \E k \in 1..Len(stage_results) : stage_results[k].stage_id = dep_id

\* _check_dependencies asking for one successful dependency, not for all.
_check_dependencies_some(stage_, stage_results) ==
    IF stage_.depends_on = {} THEN TRUE
    ELSE LET completed_stages ==
                 {stage_results[k].stage_id :
                     k \in {j \in 1..Len(stage_results) :
                               stage_results[j].status = "success"}}
         IN  \E dep_id \in stage_.depends_on : dep_id \in completed_stages

\* _check_dependencies: no dependencies, or every dependency id is the stage
\* id of a result with status success.
_check_dependencies(stage_, stage_results) ==
    IF stage_.depends_on = {} THEN TRUE
    ELSE LET completed_stages ==
                 {stage_results[k].stage_id :
                     k \in {j \in 1..Len(stage_results) :
                               stage_results[j].status = "success"}}
         IN  \A dep_id \in stage_.depends_on : dep_id \in completed_stages

\* The value_from_variable branch keeping the items whose value is not in the set.
FilterByValues_excluding(input_data, filter_field, filter_values, variables) ==
    LET filter_set ==
            {filter_values.elems[k]["$"] : k \in 1..Len(filter_values.elems)}
        Keep(item) == DictGet(item, filter_field) \notin filter_set
    IN  Returned(List(SelectSeq(input_data.elems, Keep)), variables)

\* _execute_filter, the value_from_variable branch (lines 420-424): the items
\* whose field value is in the set built from the variable's list.
\* set(filter_values) raises TypeError on an unhashable element (a dict);
\* item.get raises AttributeError on an item that is not a dict.
FilterByValues(input_data, filter_field, filter_values, variables) ==
    IF \E k \in 1..Len(filter_values.elems) : IsDict(filter_values.elems[k])
    THEN Raised(<<"TypeError", "unhashable type: 'dict'">>, variables)
    ELSE IF \E k \in 1..Len(input_data.elems) : ~IsDict(input_data.elems[k])
    THEN Raised(<<"AttributeError", "object has no attribute 'get'">>, variables)
    ELSE LET filter_set ==
                 {filter_values.elems[k]["$"] : k \in 1..Len(filter_values.elems)}
             Keep(item) == DictGet(item, filter_field) \in filter_set
         IN  Returned(List(SelectSeq(input_data.elems, Keep)), variables)

\* The static fallback keeping the items whose field differs from the value.
FilterByValue_excluding(input_data, filter_field, filter_value, variables) ==
    LET Keep(item) ==
            ~(/\ filter_value.kind = "str"
              /\ DictGet(item, filter_field) = filter_value.elems[1]["$"])
    IN  Returned(List(SelectSeq(input_data.elems, Keep)), variables)

\* _execute_filter, the static fallback (lines 427-429): the items whose field
\* equals parameters["value"].
FilterByValue(input_data, filter_field, filter_value, variables) ==
    IF \E k \in 1..Len(input_data.elems) : ~IsDict(input_data.elems[k])
    THEN Raised(<<"AttributeError", "object has no attribute 'get'">>, variables)
    ELSE LET Keep(item) ==
                 /\ filter_value.kind = "str"
                 /\ DictGet(item, filter_field) = filter_value.elems[1]["$"]
         IN  Returned(List(SelectSeq(input_data.elems, Keep)), variables)

\* _execute_filter (lines 408-431).
_execute_filter(stage, variables) ==
    LET input_data ==
            IF stage.input_variables # <<>>
            THEN get_variable(variables, stage.input_variables[1]) ELSE Null
        filter_field == stage.parameters.field
        value_from_variable == stage.parameters.value_from_variable
        filter_values == get_variable(variables, value_from_variable)
        filter_value == stage.parameters.value
    IN  IF input_data.kind # "list" THEN Returned(input_data, variables)
        ELSE IF /\ ~Falsy(filter_field) /\ ~Falsy(value_from_variable)
                /\ filter_values.kind = "list"
        THEN FilterByValues(input_data, filter_field, filter_values, variables)
        ELSE IF ~Falsy(filter_field) /\ filter_value.kind # "null"
        THEN FilterByValue(input_data, filter_field, filter_value, variables)
        ELSE Returned(input_data, variables)

\* A parameter value as it is compared with and stored in an item's field.
FieldValue(value) == IF value.kind = "str" THEN value.elems[1]["$"] ELSE None

\* The add_field transform writing the new list over the input variable, as
\* if it had set the field in the items of the input list themselves.
add_field_in_place(stage, variables, input_data) ==
    LET field == stage.parameters.field
        value == FieldValue(stage.parameters.value)
        added == [k \in 1..Len(input_data.elems) |->
                     IF IsDict(input_data.elems[k])
                     THEN [f \in DOMAIN input_data.elems[k] \cup {field} |->
                              IF f = field THEN value ELSE input_data.elems[k][f]]
                     ELSE input_data.elems[k]]
    IN  Returned(List(added),
                 [variables EXCEPT ![stage.input_variables[1]] = List(added)])

\* _execute_transform, add_field on a list (lines 383-395): a copy of every
\* dict item with the field set, any other item as it is.
add_field(stage, variables, input_data) ==
    LET field == stage.parameters.field
        value == FieldValue(stage.parameters.value)
        added == [k \in 1..Len(input_data.elems) |->
                     IF IsDict(input_data.elems[k])
                     THEN [f \in DOMAIN input_data.elems[k] \cup {field} |->
                              IF f = field THEN value ELSE input_data.elems[k][f]]
                     ELSE input_data.elems[k]]
    IN  Returned(List(added), variables)

\* _execute_transform (lines 361-406).  The default transform_type is
\* identity; a transform_type and input shape no branch returns for falls
\* through to `return input_data`.  filter_field calls item.get on every
\* item, which raises AttributeError on an item that is not a dict.
_execute_transform(stage, variables) ==
    LET input_data ==
            IF stage.input_variables # <<>>
            THEN get_variable(variables, stage.input_variables[1]) ELSE Null
        transform_type == IF stage.parameters.transform_type = None
                          THEN "identity" ELSE stage.parameters.transform_type
        field == stage.parameters.field
        value == FieldValue(stage.parameters.value)
        dicts == SelectSeq(input_data.elems, IsDict)
        Keep(item) == DictGet(item, field) = value
    IN  CASE transform_type = "extract_field" /\ input_data.kind = "list" ->
                 Returned(List([k \in 1..Len(dicts) |->
                                   Scalar(DictGet(dicts[k], field))]),
                          variables)
          [] transform_type = "extract_field" /\ input_data.kind = "object" ->
                 Returned(IF DictGet(input_data.elems[1], field) = None THEN Null
                          ELSE Str(DictGet(input_data.elems[1], field)),
                          variables)
          [] transform_type = "filter_field" /\ input_data.kind = "list" ->
                 IF \E k \in 1..Len(input_data.elems) : ~IsDict(input_data.elems[k])
                 THEN Raised(<<"AttributeError", "object has no attribute 'get'">>,
                             variables)
                 ELSE Returned(List(SelectSeq(input_data.elems, Keep)), variables)
          [] transform_type = "add_field" /\ input_data.kind = "list" ->
                 add_field(stage, variables, input_data)
          [] transform_type = "add_field" /\ input_data.kind = "object" ->
                 Returned(Object([f \in DOMAIN input_data.elems[1] \cup {field} |->
                                     IF f = field THEN value
                                     ELSE input_data.elems[1][f]]),
                          variables)
          [] transform_type = "slice" /\ input_data.kind = "list" ->
                 Returned(List(SubSeq(input_data.elems, stage.parameters.start + 1,
                                      IF stage.parameters.end < Len(input_data.elems)
                                      THEN stage.parameters.end
                                      ELSE Len(input_data.elems))),
                          variables)
          [] OTHER -> Returned(input_data, variables)

\* The key order of the items of the model (a dict keeps insertion order).
FieldOrder == <<"sku", "name", "id", "warehouse_id", "items">>

\* {field_mappings.get(k, k): v for k, v in item.items()} (lines 443, 447):
\* every key under its new name; of two keys with the same new name the later
\* one of the item gives the value.
Renamed(item, field_mappings) ==
    LET NewName(k) == IF k \in DOMAIN field_mappings THEN field_mappings[k] ELSE k
        Last(K) == CHOOSE n \in 1..Len(FieldOrder) :
                       /\ FieldOrder[n] \in DOMAIN item
                       /\ NewName(FieldOrder[n]) = K
                       /\ \A m \in (n + 1)..Len(FieldOrder) :
                            ~(FieldOrder[m] \in DOMAIN item
                              /\ NewName(FieldOrder[m]) = K)
    IN  [K \in {NewName(k) : k \in DOMAIN item} |-> item[FieldOrder[Last(K)]]]

\* map_fields keeping an item that is not a dict as it is.
_execute_map_fields_keeping_all(stage, variables) ==
    LET input_data ==
            IF stage.input_variables # <<>>
            THEN get_variable(variables, stage.input_variables[1]) ELSE Null
    IN  IF input_data.kind = "list"
        THEN Returned(List([k \in 1..Len(input_data.elems) |->
                               IF IsDict(input_data.elems[k])
                               THEN Renamed(input_data.elems[k],
                                            stage.parameters.mappings)
                               ELSE input_data.elems[k]]),
                      variables)
        ELSE Returned(input_data, variables)

\* _execute_map_fields (lines 433-449): the dict items of a list renamed, the
\* other items left out; a single dict renamed; anything else as it is.
_execute_map_fields(stage, variables) ==
    LET input_data ==
            IF stage.input_variables # <<>>
            THEN get_variable(variables, stage.input_variables[1]) ELSE Null
        field_mappings == stage.parameters.mappings
        dicts == SelectSeq(input_data.elems, IsDict)
    IN  CASE input_data.kind = "list" ->
                 Returned(List([k \in 1..Len(dicts) |->
                                   Renamed(dicts[k], field_mappings)]),
                          variables)
          [] input_data.kind = "object" ->
                 Returned(Object(Renamed(input_data.elems[1], field_mappings)),
                          variables)
          [] OTHER -> Returned(input_data, variables)

\* _execute_set_variable (lines 451-459): the variable named by
\* variable_name, if any, set to the value parameter, which is returned.
_execute_set_variable(stage, variables) ==
    LET var_name == stage.parameters.variable_name
        var_value == stage.parameters.value
    IN  Returned(var_value,
                 IF ~Falsy(var_name) THEN [variables EXCEPT ![var_name] = var_value]
                 ELSE variables)

\* str.replace(placeholder, replacement): every occurrence of the
\* placeholder in the message, left to right; the text put in is not scanned
\* again by the same call.
RECURSIVE Replace(_, _, _)
Replace(message, placeholder, replacement) ==
    IF message = <<>> THEN <<>>
    ELSE (IF Head(message) = placeholder THEN replacement ELSE <<Head(message)>>)
         \o Replace(Tail(message), placeholder, replacement)

\* The body of the loop of _execute_log for one variable (lines 468-477):
\* {name} becomes str(value), then {len(name)} becomes the length of a list
\* and "N/A" for any other value.
Substitute(message, var_name, var_value) ==
    LET named == Replace(message, Var(var_name), str(var_value))
    IN  Replace(named, LenOf(var_name),
                IF var_value.kind = "list"
                THEN <<Lit(ToString(Len(var_value.elems)))>>
                ELSE <<Lit("N/A")>>)

\* The loop of _execute_log (line 467) over the first n keys of the context's
\* variables, each pass working on the message the pass before left.
RECURSIVE SubstituteAll(_, _, _)
SubstituteAll(message, variables, n) ==
    IF n = 0 THEN message
    ELSE LET before == SubstituteAll(message, variables, n - 1)
             var_name == VariableOrder[n]
         IN  IF variables[var_name].kind = "absent" THEN before
             ELSE Substitute(before, var_name, variables[var_name])

\* _execute_log (lines 461-488): the message parameter ("" by default) after
\* the substitution loop.
_execute_log(stage, variables) ==
    LET message == IF stage.parameters.message = None THEN ""
                   ELSE stage.parameters.message
    IN  Returned(Text(SubstituteAll(Pieces(message), variables,
                                    Len(VariableOrder))),
                 variables)

\* Subclasses of the two shipped connector classes that define
\* _validate_credentials (connectors/base.py 59-62) and inherit every other
\* method: the classes a context can hold an instance of.
ConcreteClasses == {"ConcreteShipStationConnector", "ConcreteInfiPlexConnector"}
BaseOf(class) ==
    CASE class = "ConcreteShipStationConnector" -> "ShipStationConnector"
      [] class = "ConcreteInfiPlexConnector" -> "InfiPlexConnector"
      [] OTHER -> class

\* The methods of a connector class and their signatures as
\* inspect.signature(method) reports them: the declared parameter names, those
\* without a default, and whether the method takes **kwargs
\* (connectors/base.py 80-139, shipstation.py 98-316, infiplex.py 93-353).
Signature(class, method) ==
    CASE method \in {"read_inventory", "read_products"} ->
             [params |-> {}, required |-> {}, kwargs |-> TRUE]
      [] method \in {"write_inventory", "write_products"} ->
             [params |-> {"items"}, required |-> {"items"}, kwargs |-> FALSE]
      [] method = "_read_inventory" ->
             [params |-> {"api_key", "base_url"},
              required |-> {"api_key", "base_url"}, kwargs |-> TRUE]
      [] method = "_write_inventory" /\ BaseOf(class) = "ShipStationConnector" ->
             [params |-> {"items"}, required |-> {"items"}, kwargs |-> FALSE]
      [] OTHER ->
             [params |-> {"items", "api_key", "base_url"}, required |-> {},
              kwargs |-> TRUE]

ClassMethods(class) ==
    {"read_inventory", "write_inventory", "read_products", "write_products",
     "_read_inventory", "_write_inventory"}
    \cup (IF BaseOf(class) = "InfiPlexConnector" THEN {"_create_products"} ELSE {})

\* dict.update and item assignment: the keys of `over` replace or extend
\* those of `base`.
Merge(base, over) ==
    [n \in DOMAIN base \cup DOMAIN over |->
        IF n \in DOMAIN over THEN over[n] ELSE base[n]]

\* method_args.update(stage.parameters) (line 301): every key of the stage's
\* parameters.  The connector_method stages of the model carry no start, end
\* or mappings.
from_parameters(stage) ==
    LET named == {k \in DOMAIN stage.parameters
                            \ {"value", "start", "end", "mappings"} :
                     stage.parameters[k] # None}
        valued == IF stage.parameters.value.kind # "null" THEN {"value"} ELSE {}
    IN  [k \in named \cup valued |->
            IF k = "value" THEN stage.parameters.value
            ELSE Str(stage.parameters[k])]

\* Lines 304-306: every input variable that is in the context, under its own
\* name.
from_variables(stage, variables) ==
    LET given == {stage.input_variables[k] :
                     k \in {j \in 1..Len(stage.input_variables) :
                               /\ stage.input_variables[j] \in DOMAIN variables
                               /\ variables[stage.input_variables[j]].kind
                                      # "absent"}}
    IN  [n \in given |-> variables[n]]

\* Lines 309-313: the integration whose credentials a stage gets is chosen by
\* the connector slot; stage.credentials_key is not read.
connector_type(stage) ==
    CASE stage.connector = "source" -> "shipstation"
      [] stage.connector = "target" -> "infiplex"
      [] OTHER -> None

\* The credentials added whatever the method declares.
InjectedCredentials_undeclared(stage, configs, sig) ==
    LET type == connector_type(stage)
        names == IF type \in DOMAIN configs THEN {"api_key", "base_url"} ELSE {}
    IN  [c \in names |-> Str(configs[type][c])]

\* Lines 315-331: api_key and base_url of the integration's cached
\* credentials, each only when the method declares a parameter of that name.
InjectedCredentials(stage, configs, sig) ==
    LET type == connector_type(stage)
        names == IF type \in DOMAIN configs
                 THEN {c \in {"api_key", "base_url"} : c \in sig.params}
                 ELSE {}
    IN  [c \in names |-> Str(configs[type][c])]

\* The three sources merged with the first one winning.
method_args_first_wins(parameters, variables, credentials) ==
    Merge(Merge(credentials, variables), parameters)

\* method_args after lines 301, 304-306 and 321-328: the parameters, overlaid
\* with the input variables, overlaid with the credentials.
method_args(parameters, variables, credentials) ==
    Merge(Merge(parameters, variables), credentials)

\* Every argument but self passed, whatever the signature.
filtered_args_passing_all(args, sig) ==
    [k \in DOMAIN args \ {"self"} |-> args[k]]

\* filtered_args (lines 340-353): everything but a key self when the method
\* takes **kwargs, otherwise the arguments the signature names (self is not
\* among the parameters of a bound method).
filtered_args(args, sig) ==
    IF sig.kwargs
    THEN [k \in DOMAIN args \ {"self"} |-> args[k]]
    ELSE [k \in DOMAIN args \cap sig.params |-> args[k]]

\* _execute_connector_method (lines 282-359).  `configs` is the engine's
\* integration_configs.  method(**filtered_args) raises TypeError before the
\* method is entered when a parameter without default gets no argument;
\* `net` is what the external service does with the call: a read returns the
\* service's items, a write returns a summary.  The call is noted with its
\* arguments and with what the service did.
_execute_connector_method(stage, variables, connectors, configs, service, net) ==
    IF Falsy(stage.connector) \/ Falsy(stage.method)
    THEN Raised(<<"ValueError", "connector and method are required", stage.id>>,
                variables)
    ELSE IF stage.connector \notin DOMAIN connectors
    THEN Raised(<<"ValueError", "Connector not found", stage.connector>>,
                variables)
    ELSE IF stage.method \notin ClassMethods(connectors[stage.connector])
    THEN Raised(<<"ValueError", "Connector does not have method", stage.method>>,
                variables)
    ELSE LET sig == Signature(connectors[stage.connector], stage.method)
             args == filtered_args(
                         method_args(from_parameters(stage),
                                     from_variables(stage, variables),
                                     InjectedCredentials(stage, configs, sig)),
                         sig)
             call == [stage_id |-> stage.id, connector |-> stage.connector,
                      method |-> stage.method, args |-> args, outcome |-> net]
         IN  IF ~(sig.required \subseteq DOMAIN args)
             THEN Raised(<<"TypeError", "missing required positional argument">>,
                         variables)
             ELSE IF net = "error"
             THEN [Raised(<<"ConnectorError", "Request failed">>, variables)
                      EXCEPT !.calls = <<call>>]
             ELSE [Returned(IF stage.method \in {"read_inventory", "_read_inventory"}
                            THEN List(service[stage.connector]) ELSE List(<<>>),
                            variables)
                      EXCEPT !.calls = <<call>>]

\* What the external service may do with the stage's call, if the stage
\* reaches one.
NetOutcomes(stage, connectors) ==
    IF /\ stage.type = "connector_method"
       /\ ~Falsy(stage.connector) /\ ~Falsy(stage.method)
       /\ stage.connector \in DOMAIN connectors
       /\ stage.method \in ClassMethods(connectors[stage.connector])
    THEN {"ok", "error"} ELSE {"none"}

\* The dispatch on stage.type of _execute_stage (lines 196-210).  The
\* reserved types condition and loop are handled by no branch.
Dispatch(stage, variables, connectors, configs, service, net) ==
    CASE stage.type = "connector_method" ->
             _execute_connector_method(stage, variables, connectors, configs,
                                       service, net)
      [] stage.type = "transform" -> _execute_transform(stage, variables)
      [] stage.type = "filter" -> _execute_filter(stage, variables)
      [] stage.type = "map_fields" -> _execute_map_fields(stage, variables)
      [] stage.type = "set_variable" -> _execute_set_variable(stage, variables)
      [] stage.type = "log" -> _execute_log(stage, variables)
      [] stage.type \in {"condition", "loop"} ->
             Raised(<<"ValueError", "Unknown stage type", stage.type>>, variables)

\* StageResult(stage_id=..., status="running") with the defaults of the
\* other fields (models/stages.py 76-94).
StageResult(stage_id, status) ==
    [stage_id |-> stage_id, status |-> status, output_data |-> Null,
     items_processed |-> 0, error_message |-> <<>>, retry_count |-> 0]

\* items_processed of lines 219-222: the length of a list output, the
\* length of output["items"] for a dict output with that key (len raises
\* TypeError on None), otherwise the default 0.
ItemsProcessed(output) ==
    CASE output.kind = "list" ->
             [raised |-> FALSE, error |-> <<>>, n |-> Len(output.elems)]
      [] output.kind = "object" /\ "items" \in DOMAIN output.elems[1] ->
             IF output.elems[1]["items"] = None
             THEN [raised |-> TRUE, n |-> 0,
                   error |-> <<"TypeError", "object of type 'NoneType' has no len()">>]
             ELSE [raised |-> FALSE, error |-> <<>>,
                   n |-> Len(output.elems[1]["items"])]
      [] OTHER -> [raised |-> FALSE, error |-> <<>>, n |-> 0]

\* _execute_stage storing the output under output_variable also when it is
\* None.
Attempt_storing_null(stage, variables, connectors, configs, service, net) ==
    LET result == StageResult(stage.id, "running")
        out == Dispatch(stage, variables, connectors, configs, service, net)
        stored == IF stage.output_variable # None
                  THEN [out.variables EXCEPT ![stage.output_variable] = out.output]
                  ELSE out.variables
        counted == ItemsProcessed(out.output)
    IN  IF stage.condition # <<>> /\ ~_evaluate_condition(stage.condition, variables)
        THEN [result |-> [result EXCEPT !.status = "skipped"],
              variables |-> variables, calls |-> <<>>, dispatched |-> FALSE]
        ELSE IF out.raised
        THEN [result |-> [result EXCEPT !.status = "failed",
                                        !.error_message = out.error],
              variables |-> out.variables, calls |-> out.calls,
              dispatched |-> TRUE]
        ELSE IF counted.raised
        THEN [result |-> [result EXCEPT !.output_data = out.output,
                                        !.status = "failed",
                                        !.error_message = counted.error],
              variables |-> stored, calls |-> out.calls, dispatched |-> TRUE]
        ELSE [result |-> [result EXCEPT !.output_data = out.output,
                                        !.status = "success",
                                        !.items_processed = counted.n],
              variables |-> stored, calls |-> out.calls, dispatched |-> TRUE]

\* _execute_stage up to the retry decision (lines 183-227): the result object
\* of this activation and the context's variables after it.  The output is
\* stored under output_variable (lines 213-214) before the items are counted
\* (lines 219-222), so an exception of the counting finds it stored.
Attempt(stage, variables, connectors, configs, service, net) ==
    LET result == StageResult(stage.id, "running")
        out == Dispatch(stage, variables, connectors, configs, service, net)
        stored == IF stage.output_variable # None /\ out.output.kind # "null"
                  THEN [out.variables EXCEPT ![stage.output_variable] = out.output]
                  ELSE out.variables
        counted == ItemsProcessed(out.output)
    IN  IF stage.condition # <<>> /\ ~_evaluate_condition(stage.condition, variables)
        THEN [result |-> [result EXCEPT !.status = "skipped"],
              variables |-> variables, calls |-> <<>>, dispatched |-> FALSE]
        ELSE IF out.raised
        THEN [result |-> [result EXCEPT !.status = "failed",
                                        !.error_message = out.error],
              variables |-> out.variables, calls |-> out.calls,
              dispatched |-> TRUE]
        ELSE IF counted.raised
        THEN [result |-> [result EXCEPT !.output_data = out.output,
                                        !.status = "failed",
                                        !.error_message = counted.error],
              variables |-> stored, calls |-> out.calls, dispatched |-> TRUE]
        ELSE [result |-> [result EXCEPT !.output_data = out.output,
                                        !.status = "success",
                                        !.items_processed = counted.n],
              variables |-> stored, calls |-> out.calls, dispatched |-> TRUE]

\* The retry decision of _execute_stage (line 230), on the result object of
\* the activation that just failed.
ShouldRetry(stage, result) ==
    /\ result.status = "failed"
    /\ stage.error_strategy = RETRY
    /\ result.retry_count < stage.retry_count

-----------------------------------------------------------------------------
(* The workflows of the model *)

\* workflow.variables: a dict, or None in a WorkflowConfig built without
\* validation (model_construct, or assignment after construction).
Dict(map) == [kind |-> "dict", map |-> map]
NotADict  == [kind |-> "null", map |-> NoVariables]

\* credentials_config: None by default (models/stages.py 111).
NoCredentialsConfig == [key \in {} |-> [api_key_secret |-> "", base_url_secret |-> ""]]

WorkflowConfig(source_type, target_type, stages, variables) ==
    [id |-> "wf", source |-> [service_type |-> source_type],
     target |-> [service_type |-> target_type],
     credentials_config |-> NoCredentialsConfig,
     stages |-> stages, variables |-> variables]

\* What the external services hold: the inventory items of the source and
\* the target service, and the secret names Secret Manager cannot serve now.
Remote(source, target, unavailable) ==
    [source |-> source, target |-> target, unavailable |-> unavailable]

NothingRemote == Remote(<<>>, <<>>, {})

\* The depends_on lists of stage i: none, earlier stages, a later stage, or
\* (for the last stage) an id no stage of the workflow has.
DepChoices(i) ==
    <<{{}, {"s2"}},
      {{}, {"s1"}, {"s3"}},
      {{}, {"s1"}, {"s2"}, {"s1", "s2"}, {"s9"}}>>[i]

\* The error handling of a stage: the three strategies that do not read
\* retry_count, and retry with each retry_count up to MaxRetry.
ErrorChoices ==
    {<<FAIL, 0>>, <<SKIP, 0>>, <<CONTINUE, 0>>} \cup {<<RETRY, n>> : n \in 0..MaxRetry}

\* Stage i of a generic workflow: disabled; a log stage (which cannot fail),
\* with or without a condition; or a stage of the reserved type loop (which
\* always fails), with each error handling.
StageChoices(i) ==
    {[StageConfig(StageId(i), "log") EXCEPT !.enabled = FALSE]}
    \cup {[StageConfig(StageId(i), "log") EXCEPT
              !.parameters.message = "m", !.condition = c, !.depends_on = d] :
            c \in {NoCondition, Exists("flag")}, d \in DepChoices(i)}
    \cup {[StageConfig(StageId(i), "loop") EXCEPT
              !.error_strategy = e[1], !.retry_count = e[2], !.depends_on = d] :
            e \in ErrorChoices, d \in DepChoices(i)}

\* Generic workflows: three stages, no registered service type.
GenericWorkflows ==
    {WorkflowConfig("custom", "custom", <<a, b, c>>, Dict(NoVariables)) :
        a \in StageChoices(1), b \in StageChoices(2), c \in StageChoices(3)}

\* The inventory items of the model.
ItemA  == [sku |-> "A"]
ItemB  == [sku |-> "B"]
ItemA2 == [sku |-> "A", name |-> "x"]
ItemN  == [name |-> "y"]

\* The stages of the product-creation scenario
\* (scripts/create_multi_warehouse_sync_workflow.py 62-152): read the source
\* inventory, keep the products the target does not have, create them.
ReadStage ==
    [StageConfig("s1", "connector_method") EXCEPT
        !.connector = "source", !.method = "_read_inventory",
        !.output_variable = "items"]
\* find-new-products as the script writes it (lines 113-125).
FindNewProductsStage ==
    [StageConfig("s2", "filter") EXCEPT
        !.parameters.filter_type = "exclude", !.parameters.field = "sku",
        !.parameters.values_variable = "existing",
        !.input_variables = <<"items", "existing">>,
        !.output_variable = "new_items", !.depends_on = {"s1"}]
\* The same stage with the parameter name _execute_filter reads.
FilterStage ==
    [StageConfig("s2", "filter") EXCEPT
        !.parameters.field = "sku",
        !.parameters.value_from_variable = "existing",
        !.input_variables = <<"items">>,
        !.output_variable = "new_items", !.depends_on = {"s1"}]
WriteStage ==
    [StageConfig("s3", "connector_method") EXCEPT
        !.connector = "target", !.method = "_create_products",
        !.input_variables = <<"new_items">>, !.depends_on = {"s2"},
        !.error_strategy = CONTINUE]

ScenarioWorkflows ==
    {WorkflowConfig(st, tt, <<ReadStage, f, WriteStage>>,
                    Dict([NoVariables EXCEPT !["existing"] = List(<<Scalar("A")>>)])) :
        st \in {"shipstation", "custom"}, tt \in {"infiplex", "custom"},
        f \in {FindNewProductsStage, FilterStage}}

\* A workflow whose variables field is not a dict.
UnvalidatedWorkflows ==
    {WorkflowConfig("custom", "custom",
                    <<StageConfig("s1", "log"), StageConfig("s2", "log"),
                      StageConfig("s3", "log")>>, NotADict)}

\* initial_variables of execute_workflow: None, or a dict.
InitialVariables == {NoVariables, [NoVariables EXCEPT !["flag"] = Str("yes")]}

-----------------------------------------------------------------------------
(* The engine: WorkflowEngine.__init__ and the secret service *)

\* What Secret Manager holds under each secret name.
SecretManager ==
    [n \in {"shipstation-api-key", "shipstation-base-url", "infiplex-api-key",
            "infiplex-base-url", "infiplex-warehouse-18-api-key"} |->
        CASE n = "shipstation-api-key" -> "key-shipstation"
          [] n = "shipstation-base-url" -> "url-shipstation"
          [] n = "infiplex-api-key" -> "key-infiplex"
          [] n = "infiplex-base-url" -> "url-infiplex"
          [] n = "infiplex-warehouse-18-api-key" -> "key-infiplex-18"]

\* integration_configs of WorkflowEngine.__init__ (line 62): empty.
NoConfigs == [t \in {} |-> [api_key |-> "", base_url |-> ""]]

\* The engine's secret service (lines 63-72) with its empty _cache
\* (services/secrets.py 23).
SecretManagerService == [present |-> TRUE, cache |-> [n \in {} |-> ""]]

-----------------------------------------------------------------------------
(* The driver: WorkflowEngine.execute_workflow (lines 105-176) *)

Stages == workflow.stages
stage == Stages[idx]

NoExecution ==
    [id |-> <<>>, status |-> "none", stage_results |-> <<>>, total_stages |-> 0,
     completed_stages |-> 0, failed_stages |-> 0, skipped_stages |-> 0,
     error_message |-> <<>>]

NoConnectors == [slot \in {} |-> ""]

\* A call of execute_workflow on a new engine, before its first step.
InitRun(workflows, services) ==
    /\ workflow \in workflows
    /\ remote \in services
    /\ pc = "init"
    /\ idx = 0
    /\ depth = 0
    /\ context_bound = FALSE
    /\ ctx_variables = NoVariables
    /\ ctx_stage_results = <<>>
    /\ ctx_connectors = NoConnectors
    /\ execution = NoExecution
    /\ dispatches = [id \in StageIds |-> 0]
    /\ calls = <<>>
    /\ integration_configs = NoConfigs
    /\ secret_service = SecretManagerService
    /\ initial_variables = NoVariables
    /\ clock = 0

\* One call of execute_workflow and nothing else going on.
InitWith(workflows, services) ==
    /\ InitRun(workflows, services)
    /\ suspended = <<>>
    /\ mapped = NoMapping

Init ==
    \/ InitWith(GenericWorkflows \cup UnvalidatedWorkflows, {NothingRemote})
    \/ InitWith(ScenarioWorkflows,
                {Remote(<<ItemA, ItemB>>, <<ItemA>>, {})})

\* The secrets load_integration_configs asks for, in the order of its
\* get_secret calls (lines 83-93).
SecretNames ==
    <<"shipstation-api-key", "shipstation-base-url",
      "infiplex-api-key", "infiplex-base-url">>

\* load_integration_configs (lines 74-103).  Without a secret service nothing
\* is loaded.  get_secret (services/secrets.py 25-44) answers from the
\* service's _cache, or asks Secret Manager, caches the answer, and raises when
\* Secret Manager cannot serve the name; the first failure ends the loading
\* (lines 101-103) with the entries assigned so far kept.
load_integration_configs(configs, service, unavailable) ==
    IF ~service.present THEN [configs |-> configs, service |-> service]
    ELSE LET failing == {k \in 1..4 : /\ SecretNames[k] \notin DOMAIN service.cache
                                      /\ SecretNames[k] \in unavailable}
             stop == IF failing = {} THEN 5
                     ELSE CHOOSE k \in failing : \A j \in failing : k <= j
             got == {SecretNames[k] : k \in 1..(stop - 1)}
             cache == [n \in DOMAIN service.cache \cup got |->
                          IF n \in DOMAIN service.cache THEN service.cache[n]
                          ELSE SecretManager[n]]
             shipstation ==
                 IF stop > 2
                 THEN [t \in {"shipstation"} |->
                          [api_key |-> cache[SecretNames[1]],
                           base_url |-> cache[SecretNames[2]]]]
                 ELSE NoConfigs
             infiplex ==
                 IF stop > 4
                 THEN [t \in {"infiplex"} |->
                          [api_key |-> cache[SecretNames[3]],
                           base_url |-> cache[SecretNames[4]]]]
                 ELSE NoConfigs
         IN  [configs |-> Merge(Merge(configs, shipstation), infiplex),
              service |-> [service EXCEPT !.cache = cache]]

\* len([s for s in workflow.stages]): every stage counted, enabled or not.
total_stages_counting_all(stages) == Len(stages)

\* total_stages of line 115: the number of stages with enabled=true.
total_stages(stages) ==
    Cardinality({i \in 1..Len(stages) : stages[i].enabled})

\* WorkflowExecution(...) of lines 111-116: status running, total_stages the
\* number of enabled stages, the counters zero (models/stages.py 130-157).
WorkflowExecution(enabled_stages) ==
    [id |-> <<>>, status |-> "running", stage_results |-> <<>>, total_stages |-> enabled_stages,
     completed_stages |-> 0, failed_stages |-> 0, skipped_stages |-> 0,
     error_message |-> <<>>]

\* The except clause keeping the message but leaving the status as it was.
RunFailed_keeps_status(exec, error) ==
    [exec EXCEPT !.error_message = error]

\* The except clause of execute_workflow (lines 160-163).
RunFailed(exec, error) ==
    [exec EXCEPT !.status = "failed", !.error_message = error]

\* connector_class() of lines 254 and 262: a class with abstract methods
\* cannot be instantiated.
CanInstantiate(class) == AbstractMethods(class) = {}

\* _initialize_connectors (lines 246-264): the source slot, then the target
\* slot, each only for a registered service type.
_initialize_connectors(wf) ==
    LET source_type == wf.source.service_type
        target_type == wf.target.service_type
        with_source ==
            IF source_type \in DOMAIN connector_classes
            THEN [slot \in {"source"} |-> connector_classes[source_type]]
            ELSE NoConnectors
    IN  IF /\ source_type \in DOMAIN connector_classes
           /\ ~CanInstantiate(connector_classes[source_type])
        THEN [raised |-> TRUE, connectors |-> NoConnectors,
              error |-> <<"TypeError", "Can't instantiate abstract class",
                          connector_classes[source_type]>>]
        ELSE IF /\ target_type \in DOMAIN connector_classes
                /\ ~CanInstantiate(connector_classes[target_type])
        THEN [raised |-> TRUE, connectors |-> with_source,
              error |-> <<"TypeError", "Can't instantiate abstract class",
                          connector_classes[target_type]>>]
        ELSE [raised |-> FALSE, error |-> <<>>,
              connectors |->
                  IF target_type \in DOMAIN connector_classes
                  THEN [slot \in DOMAIN with_source \cup {"target"} |->
                           IF slot = "target" THEN connector_classes[target_type]
                           ELSE with_source[slot]]
                  ELSE with_source]

\* dict.update keeping the value the base has for a key both dicts have.
Update_keeping_base(base, over) ==
    [v \in VarNames |-> IF base[v].kind # "absent" THEN base[v] ELSE over[v]]

\* dict.update: the keys of `over` replace or extend those of `base`.
Update(base, over) ==
    [v \in VarNames |-> IF over[v].kind # "absent" THEN over[v] ELSE base[v]]

\* The workflow configuration after a write to the variables of a context
\* that holds the workflow's own dict instead of a copy of it.
workflow_after_write_shared(wf, variables) ==
    [wf EXCEPT !.variables = Dict(variables)]

\* The workflow configuration after a write to the context's variables
\* (set_variable, lines 38-41, and the update of line 123): the context holds
\* a copy of workflow.variables (line 33), and no stage assigns to a field
\* of the workflow or of a stage, so the configuration is as it was.
workflow_after_write(wf, variables) == wf

\* The execution id of line 110: f"workflow_{workflow.id}_{int(time.time())}".
execution_id(wf, now) == <<"workflow", wf.id, now>>

\* The variables of a context that every run on the engine shares: those of
\* the suspended run, if it has a context.
ContextVariables_shared(wf) ==
    IF suspended # <<>> /\ suspended[1].context_bound
    THEN suspended[1].ctx_variables ELSE wf.variables.map

\* WorkflowExecutionContext.__init__ (lines 31-36): the variables of a new
\* context are a copy of workflow.variables.
ContextVariables(wf) == wf.variables.map

\* execute_workflow from the call to the first iteration (lines 105-128):
\* the integration configurations loaded, the execution record, the context seeded from workflow.variables and
\* overlaid with initial_variables, the connectors.  An exception of the
\* try block is caught by the except clause (lines 160-163).
execute_workflow_enter ==
    /\ pc = "init"
    /\ \E given \in InitialVariables :
        LET exec == [WorkflowExecution(total_stages(Stages)) EXCEPT
                        !.id = execution_id(workflow, clock)]
            init == _initialize_connectors(workflow)
        IN  /\ initial_variables' = given
            /\ IF workflow.variables.kind # "dict"
               THEN \* WorkflowExecutionContext.__init__: None has no copy()
                 /\ execution' = RunFailed(exec,
                        <<"AttributeError", "'NoneType' object has no attribute 'copy'">>)
                 /\ pc' = "exit"
                 /\ UNCHANGED <<workflow, context_bound, ctx_variables,
                                ctx_connectors, idx>>
               ELSE
                 /\ context_bound' = TRUE
                 /\ ctx_variables' = Update(ContextVariables(workflow), given)
                 /\ workflow' = workflow_after_write(workflow, ctx_variables')
                 /\ ctx_connectors' = init.connectors
                 /\ IF init.raised
                    THEN /\ execution' = RunFailed(exec, init.error)
                         /\ pc' = "exit"
                         /\ UNCHANGED idx
                    ELSE /\ execution' = exec
                         /\ pc' = "loop"
                         /\ idx' = 1
    /\ LET loaded == load_integration_configs(integration_configs,
                                               secret_service, remote.unavailable)
       IN  /\ integration_configs' = loaded.configs
           /\ secret_service' = loaded.service
    /\ UNCHANGED <<remote, depth, ctx_stage_results, dispatches, calls,
                   suspended, mapped, clock>>

AtStage == pc = "loop" /\ idx <= Len(Stages)

\* Lines 130-132: a disabled stage is passed over.
skip_disabled_stage ==
    /\ AtStage
    /\ ~stage.enabled
    /\ idx' = idx + 1
    /\ UNCHANGED <<workflow, remote, pc, depth, context_bound, ctx_variables,
                   ctx_stage_results, ctx_connectors, execution, dispatches, calls,
                   integration_configs, secret_service, suspended,
                   mapped, initial_variables, clock>>

\* Lines 134-137: an enabled stage whose dependencies are not met is passed over.
skip_unmet_dependencies ==
    /\ AtStage
    /\ stage.enabled
    /\ ~_check_dependencies(stage, ctx_stage_results)
    /\ idx' = idx + 1
    /\ UNCHANGED <<workflow, remote, pc, depth, context_bound, ctx_variables,
                   ctx_stage_results, ctx_connectors, execution, dispatches, calls,
                   integration_configs, secret_service, suspended,
                   mapped, initial_variables, clock>>

\* The driver calling _execute_stage for a stage whatever its enabled flag.
CallingStage_ignoring_enabled ==
    \/ AtStage /\ _check_dependencies(stage, ctx_stage_results)
    \/ pc = "retry"

\* An activation of _execute_stage is due: the driver calls it for an enabled
\* stage with met dependencies (line 140), or a failed activation calls it
\* again (line 234).
CallingStage ==
    \/ AtStage /\ stage.enabled /\ _check_dependencies(stage, ctx_stage_results)
    \/ pc = "retry"

\* The driver counting a skipped result as a failed one.
RecordResult_skipped_as_failed(exec, stage_result, strategy) ==
    LET appended == [exec EXCEPT !.stage_results = Append(@, stage_result)]
    IN  CASE stage_result.status = "success" ->
                 [appended EXCEPT !.completed_stages = @ + 1]
          [] stage_result.status = "failed" /\ strategy = FAIL ->
                 [appended EXCEPT !.failed_stages = @ + 1,
                                  !.status = "failed",
                                  !.error_message = stage_result.error_message]
          [] OTHER -> [appended EXCEPT !.failed_stages = @ + 1]

\* The driver putting the result at the head of the execution's list.
RecordResult_at_head(exec, stage_result, strategy) ==
    LET inserted == [exec EXCEPT !.stage_results = <<stage_result>> \o @]
    IN  CASE stage_result.status = "success" ->
                 [inserted EXCEPT !.completed_stages = @ + 1]
          [] stage_result.status = "failed" /\ strategy = FAIL ->
                 [inserted EXCEPT !.failed_stages = @ + 1,
                                  !.status = "failed",
                                  !.error_message = stage_result.error_message]
          [] stage_result.status = "failed" /\ strategy # FAIL ->
                 [inserted EXCEPT !.failed_stages = @ + 1]
          [] stage_result.status = "skipped" ->
                 [inserted EXCEPT !.skipped_stages = @ + 1]

\* Lines 141-154: the driver records the result the stage returned, counts it,
\* and stops the loop on a failed stage whose strategy is fail.
RecordResult(exec, stage_result, strategy) ==
    LET appended == [exec EXCEPT !.stage_results = Append(@, stage_result)]
    IN  CASE stage_result.status = "success" ->
                 [appended EXCEPT !.completed_stages = @ + 1]
          [] stage_result.status = "failed" /\ strategy = FAIL ->
                 [appended EXCEPT !.failed_stages = @ + 1,
                                  !.status = "failed",
                                  !.error_message = stage_result.error_message]
          [] stage_result.status = "failed" /\ strategy # FAIL ->
                 [appended EXCEPT !.failed_stages = @ + 1]
          [] stage_result.status = "skipped" ->
                 [appended EXCEPT !.skipped_stages = @ + 1]

\* The driver leaving the loop on every failed stage.
Halts_on_any_failure(stage_result, strategy) == stage_result.status = "failed"

\* The driver never leaving the loop on a failed stage.
Halts_never(stage_result, strategy) == FALSE

\* Line 149-152: the loop is left by break.
Halts(stage_result, strategy) ==
    stage_result.status = "failed" /\ strategy = FAIL

\* One activation of _execute_stage that returns its result (lines 178-244),
\* and the driver's handling of it (lines 141-154).
execute_stage_returns ==
    /\ CallingStage
    /\ \E net \in NetOutcomes(stage, ctx_connectors) :
        LET a == Attempt(stage, ctx_variables, ctx_connectors, integration_configs, remote, net)
        IN  /\ ~ShouldRetry(stage, a.result)
            /\ ctx_variables' = a.variables
            /\ workflow' = workflow_after_write(workflow, a.variables)
            /\ calls' = calls \o a.calls
            /\ dispatches' = IF a.dispatched
                             THEN [dispatches EXCEPT ![stage.id] = @ + 1]
                             ELSE dispatches
            /\ ctx_stage_results' = Append(ctx_stage_results, a.result)
            /\ execution' = RecordResult(execution, a.result, stage.error_strategy)
            /\ IF Halts(a.result, stage.error_strategy)
               THEN pc' = "exit" /\ idx' = idx
               ELSE pc' = "loop" /\ idx' = idx + 1
    /\ depth' = 0
    /\ UNCHANGED <<remote, context_bound, ctx_connectors,
                   integration_configs, secret_service, suspended,
                   mapped, initial_variables, clock>>

\* The number of _execute_stage frames once the due activation runs.
Frames == IF pc = "retry" THEN depth + 1 ELSE 1

\* A failed activation that calls _execute_stage again and whose own result
\* is kept in the lists as well.
execute_stage_retries_recording ==
    /\ CallingStage
    /\ (IF pc = "retry" THEN depth + 1 ELSE 1) < RecursionLimit
    /\ \E net \in NetOutcomes(stage, ctx_connectors) :
        LET a == Attempt(stage, ctx_variables, ctx_connectors, integration_configs, remote, net)
        IN  /\ ShouldRetry(stage, a.result)
            /\ ctx_variables' = a.variables
            /\ workflow' = workflow_after_write(workflow, a.variables)
            /\ calls' = calls \o a.calls
            /\ dispatches' = [dispatches EXCEPT ![stage.id] = @ + 1]
            /\ ctx_stage_results' = Append(ctx_stage_results, a.result)
            /\ execution' = [execution EXCEPT
                                !.stage_results = Append(@, a.result),
                                !.failed_stages = @ + 1]
    /\ pc' = "retry"
    /\ depth' = IF pc = "retry" THEN depth + 1 ELSE 1
    /\ UNCHANGED <<remote, idx, context_bound, ctx_connectors,
                   integration_configs, secret_service, suspended, mapped,
          initial_variables, clock>>

\* One activation of _execute_stage that fails and calls _execute_stage again
\* (lines 224-234): the result object of this activation is dropped.
execute_stage_retries ==
    /\ CallingStage
    /\ Frames < RecursionLimit
    /\ \E net \in NetOutcomes(stage, ctx_connectors) :
        LET a == Attempt(stage, ctx_variables, ctx_connectors, integration_configs, remote, net)
        IN  /\ ShouldRetry(stage, a.result)
            /\ ctx_variables' = a.variables
            /\ workflow' = workflow_after_write(workflow, a.variables)
            /\ calls' = calls \o a.calls
            /\ dispatches' = [dispatches EXCEPT ![stage.id] = @ + 1]
    /\ pc' = "retry"
    /\ depth' = Frames
    /\ UNCHANGED <<remote, idx, context_bound, ctx_stage_results,
                   ctx_connectors, execution,
                   integration_configs, secret_service, suspended,
                   mapped, initial_variables, clock>>

\* The recursive call of line 234 at the interpreter's recursion limit:
\* RecursionError leaves every _execute_stage frame and is caught by the
\* except clause of execute_workflow (lines 160-163).
execute_stage_overflows ==
    /\ CallingStage
    /\ Frames = RecursionLimit
    /\ \E net \in NetOutcomes(stage, ctx_connectors) :
        LET a == Attempt(stage, ctx_variables, ctx_connectors, integration_configs, remote, net)
        IN  /\ ShouldRetry(stage, a.result)
            /\ ctx_variables' = a.variables
            /\ workflow' = workflow_after_write(workflow, a.variables)
            /\ calls' = calls \o a.calls
            /\ dispatches' = [dispatches EXCEPT ![stage.id] = @ + 1]
    /\ execution' = RunFailed(execution,
                        <<"RecursionError", "maximum recursion depth exceeded">>)
    /\ pc' = "exit"
    /\ depth' = 0
    /\ UNCHANGED <<remote, idx, context_bound, ctx_stage_results,
                   ctx_connectors, integration_configs, secret_service, suspended,
                   mapped, initial_variables, clock>>

\* The end of execute_workflow (lines 156-176): after the last stage the
\* status running becomes completed; the finally clause stores the execution
\* in `context`, which raises UnboundLocalError when the context was never
\* created; otherwise the execution is returned.
execute_workflow_return ==
    /\ \/ pc = "loop" /\ idx > Len(Stages)
       \/ pc = "exit"
    /\ execution' = IF pc = "loop" /\ execution.status = "running"
                    THEN [execution EXCEPT !.status = "completed"]
                    ELSE execution
    /\ pc' = IF context_bound THEN "done" ELSE "raised"
    /\ UNCHANGED <<workflow, remote, idx, depth, context_bound, ctx_variables,
                   ctx_stage_results, ctx_connectors, dispatches, calls,
                   integration_configs, secret_service, suspended,
                   mapped, initial_variables, clock>>

Next ==
    \/ execute_workflow_enter
    \/ skip_disabled_stage
    \/ skip_unmet_dependencies
    \/ execute_stage_returns
    \/ execute_stage_retries
    \/ execute_stage_overflows
    \/ execute_workflow_return

Spec == Init /\ [][Next]_vars

\* The run is single-threaded and synchronous: a step that is due is taken.
FairSpec == Spec /\ WF_vars(Next)

TypeOK ==
    /\ pc \in {"init", "loop", "retry", "exit", "done", "raised"}
    /\ idx \in 0..(Len(Stages) + 1)
    /\ depth \in 0..RecursionLimit
    /\ execution.status \in {"none", "running", "completed", "failed"}

-----------------------------------------------------------------------------
(* Properties *)

\* The positions of the entries of `results` for stage id `id`.
EntriesOf(results, id) == {k \in 1..Len(results) : results[k].stage_id = id}
HasResult(id) == EntriesOf(ctx_stage_results, id) # {}
\* The stage was executed: _execute_stage was entered for it.
Executed(i) == HasResult(StageId(i)) \/ dispatches[StageId(i)] > 0
Finished == pc \in {"done", "raised"}

\* C1: a stage is executed only if every id of its depends_on is, at that
\* moment, the stage id of an entry of the context's stage_results with status
\* success; a stage with an unmet dependency is not executed and has no
\* StageResult.  The step that executes stage idx (a dispatch, or a result
\* recorded for it) starts from a state where each dependency has a success
\* entry.
C1_DependenciesGate ==
    [][ (\/ dispatches' # dispatches
         \/ Len(ctx_stage_results') > Len(ctx_stage_results))
        => /\ stage.enabled
           /\ \A dep \in stage.depends_on :
                \E k \in EntriesOf(ctx_stage_results, dep) :
                    ctx_stage_results[k].status = "success"
           /\ \A k \in 1..Len(ctx_stage_results') :
                k > Len(ctx_stage_results)
                    => ctx_stage_results'[k].stage_id = stage.id ]_vars

\* A finished run in which a stage with a dependency ran after the dependency
\* succeeded and another stage was passed over for a dependency that failed.
C1_Witness ==
    /\ pc = "done"
    /\ \E i, j \in 1..Len(Stages) :
        /\ Stages[i].depends_on # {}
        /\ HasResult(StageId(i))
        /\ Stages[j].enabled /\ Stages[j].depends_on # {}
        /\ ~Executed(j)
        /\ \E dep \in Stages[j].depends_on :
            \E k \in EntriesOf(ctx_stage_results, dep) :
                ctx_stage_results[k].status = "failed"

\* C2: a stage with error_strategy=retry and retry_count=N is dispatched at
\* most N+1 times in one run.
C2_RetryBound ==
    \A i \in 1..Len(Stages) :
        Stages[i].error_strategy = RETRY
            => dispatches[StageId(i)] <= Stages[i].retry_count + 1

\* C3: every run eventually finishes with status completed or failed, also
\* when a retry stage fails on every attempt.
C3_Terminates ==
    <>(Finished /\ execution.status \in {"completed", "failed"})

\* A finished run in which a retry stage with retry_count >= 1 failed on
\* every attempt.
C3_Witness ==
    /\ Finished
    /\ execution.status \in {"completed", "failed"}
    /\ \E i \in 1..Len(Stages) :
        /\ Stages[i].error_strategy = RETRY
        /\ Stages[i].retry_count >= 1
        /\ dispatches[StageId(i)] >= 2
        /\ \A k \in EntriesOf(ctx_stage_results, StageId(i)) :
            ctx_stage_results[k].status = "failed"

\* The index in the stage list of the stage with id `id`.
IndexOf(id) == CHOOSE i \in 1..Len(Stages) : Stages[i].id = id

\* C4: when a stage with error_strategy=fail ends failed the run halts: its
\* result is the last entry of stage_results, no later stage is executed, the
\* execution status is failed and the execution's error_message is the
\* stage's.
C4_FailHalts ==
    \A k \in 1..Len(execution.stage_results) :
        LET r == execution.stage_results[k]
        IN  (r.status = "failed" /\ Stages[IndexOf(r.stage_id)].error_strategy = FAIL)
            => /\ k = Len(execution.stage_results)
               /\ k = Len(ctx_stage_results)
               /\ execution.status = "failed"
               /\ execution.error_message = r.error_message
               /\ pc \in {"exit", "done"}
               /\ \A j \in 1..Len(Stages) :
                    j > IndexOf(r.stage_id) => ~Executed(j)

\* A finished run halted by the failure of a fail-strategy stage that is
\* followed by an enabled stage without dependencies.
C4_Witness ==
    /\ pc = "done"
    /\ \E k \in 1..Len(execution.stage_results) :
        LET r == execution.stage_results[k]
        IN  /\ r.status = "failed"
            /\ Stages[IndexOf(r.stage_id)].error_strategy = FAIL
            /\ \E j \in 1..Len(Stages) :
                /\ j > IndexOf(r.stage_id)
                /\ Stages[j].enabled /\ Stages[j].depends_on = {}

\* Stage i failed and its result was recorded.
FailedAt(i) ==
    \E k \in EntriesOf(ctx_stage_results, StageId(i)) :
        ctx_stage_results[k].status = "failed"
\* Every dependency of stage j had a success entry when the driver reached
\* stage j: it is an earlier stage of the list and it succeeded.
DependenciesMet(j) ==
    \A dep \in Stages[j].depends_on :
        /\ \E i \in 1..(j - 1) : Stages[i].id = dep
        /\ \E k \in EntriesOf(ctx_stage_results, dep) :
            ctx_stage_results[k].status = "success"
\* Stage j is a later enabled stage that does not depend on stage i and whose
\* own dependencies are met.
IndependentLater(i, j) ==
    /\ j > i
    /\ Stages[j].enabled
    /\ StageId(i) \notin Stages[j].depends_on
    /\ DependenciesMet(j)

HaltedAt(m) ==
    \/ FailedAt(m) /\ Stages[m].error_strategy = FAIL
    \/ dispatches[StageId(m)] > 0 /\ ~HasResult(StageId(m))

C6_NeverRaises ==
    /\ pc # "raised"
    /\ (pc = "done" /\ execution.error_message # <<>>)
        => execution.status = "failed"

\* Context creation or connector initialization raised.
InitializationRaised ==
    \/ workflow.variables.kind # "dict"
    \/ _initialize_connectors(workflow).raised

\* C7: the final status is completed exactly when no executed stage with
\* error_strategy=fail failed and no run-level exception occurred; a failed
\* stage whose strategy is skip, continue or retry never makes the status
\* failed and never stops the loop.
C7_OnlyFailHalts ==
    Finished =>
        (execution.status = "completed"
            <=> /\ ~InitializationRaised
                /\ \A i \in 1..Len(Stages) :
                    Stages[i].error_strategy = FAIL => ~FailedAt(i))

\* C8: after a run in which a retry stage was retried, stage_results of the
\* execution and of the context hold exactly one entry with its id.
C8_OneEntryPerRetriedStage ==
    pc = "done" =>
        \A i \in 1..Len(Stages) :
            (Stages[i].error_strategy = RETRY /\ dispatches[StageId(i)] >= 2)
                => /\ Cardinality(EntriesOf(execution.stage_results, StageId(i))) = 1
                   /\ Cardinality(EntriesOf(ctx_stage_results, StageId(i))) = 1

\* C9: in the scenario [read the source into items; keep the items whose sku
\* the target does not have, into new_items; write new_items], with source
\* items of sku A and B and existing skus [A], the write is called with
\* exactly the item of sku B.
C9_WriteReceivesOnlyNew ==
    (/\ pc = "done"
     /\ workflow.source.service_type = "shipstation"
     /\ workflow.target.service_type = "infiplex"
     /\ workflow.stages[3] = WriteStage)
        => \E k \in 1..Len(calls) :
            /\ calls[k].connector = "target"
            /\ calls[k].method = "_create_products"
            /\ "new_items" \in DOMAIN calls[k].args
            /\ calls[k].args["new_items"] = List(<<ItemB>>)

\* C17: a stage with enabled=false is never executed: no StageResult has its
\* id, it is never dispatched, and the step that passes over it changes
\* neither the results nor a counter of the execution; the three counters
\* count the recorded results only.
C17_DisabledNeverRuns ==
    /\ [](\A i \in 1..Len(Stages) :
            ~Stages[i].enabled
                => /\ EntriesOf(ctx_stage_results, StageId(i)) = {}
                   /\ EntriesOf(execution.stage_results, StageId(i)) = {}
                   /\ dispatches[StageId(i)] = 0)
    /\ [](execution.completed_stages + execution.failed_stages
            + execution.skipped_stages = Len(execution.stage_results))
    /\ [][ (AtStage /\ ~stage.enabled)
            => /\ idx' = idx + 1
               /\ execution' = execution
               /\ ctx_stage_results' = ctx_stage_results
               /\ dispatches' = dispatches ]_vars

\* A finished run that passed over a disabled stage and executed a stage
\* after it.
C17_Witness ==
    /\ pc = "done"
    /\ \E i, j \in 1..Len(Stages) :
        /\ i < j
        /\ ~Stages[i].enabled
        /\ HasResult(StageId(j))
        /\ execution.completed_stages + execution.skipped_stages >= 1

\* C18: in the returned WorkflowExecution total_stages is the number of
\* stages with enabled=true, however the run went.
C18_TotalStagesCountsEnabled ==
    pc = "done" =>
        execution.total_stages =
            Cardinality({i \in 1..Len(Stages) : Stages[i].enabled})

\* A returned execution of a workflow with a disabled stage that was halted
\* before its last enabled stage.
C18_Witness ==
    /\ pc = "done"
    /\ execution.status = "failed"
    /\ \E i \in 1..Len(Stages) : ~Stages[i].enabled
    /\ Len(execution.stage_results) < execution.total_stages
    /\ execution.total_stages = 2

-----------------------------------------------------------------------------
(* The filter stage on bounded inputs *)

\* Elements of an input list: dict items, and a string that is no dict.
InputElements == {ItemA, ItemB, ItemA2, ItemN, Scalar("A")}
\* Elements of the list a value_from_variable names: strings and None.
ValueElements == {Scalar("A"), Scalar("B"), Scalar(None)}

\* A workflow of one filter stage over the variables items and existing.
FilterWorkflows ==
    {WorkflowConfig("custom", "custom",
        <<[StageConfig("s1", "filter") EXCEPT
              !.parameters.field = f,
              !.parameters.value_from_variable = vfv,
              !.parameters.value = v,
              !.input_variables = <<"items">>,
              !.output_variable = "new_items",
              !.error_strategy = CONTINUE]>>,
        Dict([NoVariables EXCEPT !["items"] = items, !["existing"] = existing])) :
        f \in {"sku", None}, vfv \in {"existing", None}, v \in {Null, Str("A")},
        items \in {Absent} \cup {List(l) : l \in SeqsUpTo(InputElements, MaxItems)},
        existing \in {Absent, Str("A")}
                       \cup {List(l) : l \in SeqsUpTo(ValueElements, MaxValues)}}

InitFilter == InitWith(FilterWorkflows, {NothingRemote})

NextFilter ==
    \/ execute_workflow_enter
    \/ execute_stage_returns
    \/ execute_workflow_return

SpecFilter == InitFilter /\ [][NextFilter]_vars

\* The k-th smallest element of a set of numbers.
Kth(S, k) == CHOOSE i \in S : Cardinality({j \in S : j < i}) = k - 1

\* The filter stage of the run has a field and a value_from_variable that
\* names a list, and its input is a list.
FiltersByVariable ==
    /\ Stages[1].type = "filter"
    /\ Stages[1].parameters.field # None
    /\ Stages[1].parameters.value_from_variable # None
    /\ workflow.variables.map["items"].kind = "list"
    /\ workflow.variables.map[Stages[1].parameters.value_from_variable].kind = "list"

UsableValueFromVariable ==
    /\ Stages[1].parameters.value_from_variable # None
    /\ workflow.variables.map[Stages[1].parameters.value_from_variable].kind = "list"

\* The items of the input list whose field equals the static value.
EqualToValue(input) ==
    LET Keep(item) ==
            DictGet(item, Stages[1].parameters.field)
                = FieldValue(Stages[1].parameters.value)
    IN  List(SelectSeq(input.elems, Keep))

\* C34 as stated: without a usable value_from_variable the filter keeps
\* exactly the items whose field equals the static value; with neither it
\* returns the input list; an input that is not a list is returned as it is.
C34_Original ==
    (Stages[1].type = "filter" /\ Len(ctx_stage_results) = 1) =>
        LET input == workflow.variables.map["items"]
            r == ctx_stage_results[1]
        IN  /\ input.kind # "list"
                => r.status = "success" /\ r.output_data = get_variable(workflow.variables.map, "items")
            /\ (input.kind = "list" /\ ~UsableValueFromVariable)
                => /\ r.status = "success"
                   /\ r.output_data = IF Stages[1].parameters.value.kind # "null"
                                      THEN EqualToValue(input) ELSE input

\* C34: on a list input, a filter stage that names a field and a static
\* value and has no usable value_from_variable fails when an item of the list
\* is not a dict and otherwise returns exactly the items whose field equals
\* the value, in order; a filter stage without a field, or with neither a
\* usable value_from_variable nor a value, returns the input list; an input
\* that is not a list is returned as it is.
C34_StaticFilter ==
    (Stages[1].type = "filter" /\ Len(ctx_stage_results) = 1) =>
        LET input == workflow.variables.map["items"]
            r == ctx_stage_results[1]
            field == Stages[1].parameters.field
            value == Stages[1].parameters.value
        IN  /\ input.kind # "list"
                => r.status = "success" /\ r.output_data = get_variable(workflow.variables.map, "items")
            /\ (input.kind = "list" /\ ~UsableValueFromVariable
                    /\ field # None /\ value.kind # "null")
                => /\ (\A k \in 1..Len(input.elems) : IsDict(input.elems[k]))
                        <=> r.status = "success"
                   /\ r.status = "success" => r.output_data = EqualToValue(input)
            /\ (input.kind = "list"
                    /\ \/ field = None
                       \/ ~UsableValueFromVariable /\ value.kind = "null")
                => r.status = "success" /\ r.output_data = input

\* A finished run whose filter compared with the static value, value_from_variable
\* naming a variable that holds no list: it kept two items and dropped one.
C34_Witness ==
    /\ pc = "done"
    /\ Stages[1].parameters.field = "sku"
    /\ Stages[1].parameters.value_from_variable = "existing"
    /\ workflow.variables.map["existing"] = Str("A")
    /\ Stages[1].parameters.value = Str("A")
    /\ workflow.variables.map["items"] = List(<<ItemA, ItemB, ItemA2>>)
    /\ Len(ctx_stage_results) = 1
    /\ ctx_stage_results[1].output_data = List(<<ItemA, ItemA2>>)

-----------------------------------------------------------------------------
(* Connector method stages on bounded inputs *)

\* credentials_config of the multi-warehouse workflow
\* (scripts/create_multi_warehouse_sync_workflow.py 33-48).
CredentialsConfig ==
    [key \in {"shipstation_creds", "infiplex_warehouse_17",
              "infiplex_warehouse_18"} |->
        CASE key = "shipstation_creds" ->
                 [api_key_secret |-> "shipstation-api-key",
                  base_url_secret |-> "shipstation-base-url"]
          [] key = "infiplex_warehouse_17" ->
                 [api_key_secret |-> "infiplex-api-key",
                  base_url_secret |-> "infiplex-base-url"]
          [] key = "infiplex_warehouse_18" ->
                 [api_key_secret |-> "infiplex-warehouse-18-api-key",
                  base_url_secret |-> "infiplex-base-url"]]

\* The first stage of a call workflow: a method of the source or the target
\* connector, with or without parameters and input variables that share the
\* argument name api_key, a parameter self and a parameter no method declares.
CallStages ==
    {[StageConfig("s1", "connector_method") EXCEPT
         !.connector = c, !.method = m,
         !.credentials_key = IF c = "source" THEN "shipstation_creds"
                             ELSE "infiplex_warehouse_17",
         !.parameters.api_key = pk, !.parameters.self = ps,
         !.parameters.warehouse_id = pw,
         !.input_variables = iv, !.error_strategy = CONTINUE] :
        c \in {"source", "target"},
        m \in {"read_inventory", "write_inventory", "_read_inventory",
               "_write_inventory"},
        pk \in {None, "key-parameter"}, ps \in {None, "me"}, pw \in {None, "17"},
        iv \in {<<>>, <<"api_key">>, <<"items">>, <<"items", "api_key">>}}

\* The second stage: as write-inventory-wh18 of the script (lines 215-226) a
\* write on the target slot with the credentials of warehouse 18, here with
\* an api_key from every source and a parameter the method does not declare.
WriteWh18Stage ==
    [StageConfig("s2", "connector_method") EXCEPT
        !.connector = "target", !.method = "_write_inventory",
        !.credentials_key = "infiplex_warehouse_18",
        !.parameters.api_key = "key-parameter",
        !.parameters.warehouse_id = "18",
        !.input_variables = <<"items", "api_key">>,
        !.error_strategy = CONTINUE]

CallWorkflows ==
    {[WorkflowConfig("shipstation", "infiplex", <<s1, WriteWh18Stage>>,
          Dict([NoVariables EXCEPT !["items"] = List(<<ItemA>>), !["api_key"] = k]))
         EXCEPT !.credentials_config = CredentialsConfig] :
        s1 \in CallStages, k \in {Absent, Str("key-variable")}}

\* What Secret Manager cannot serve while the engine loads its integration
\* configurations: nothing, the InfiPlex key, or the ShipStation key (which
\* ends the loading before anything is assigned).
UnavailableChoices == {{}, {"infiplex-api-key"}, {"shipstation-api-key"}}

\* A run at its first stage, the integration configurations loaded and the
\* context holding one connector instance per slot.  The shipped classes
\* cannot be instantiated (AbstractMethods), so the instances are of
\* subclasses that define _validate_credentials.
InitCall ==
    /\ workflow \in CallWorkflows
    /\ remote \in {Remote(<<ItemA>>, <<>>, u) : u \in UnavailableChoices}
    /\ LET loaded == load_integration_configs(NoConfigs, SecretManagerService,
                                              remote.unavailable)
       IN  /\ integration_configs = loaded.configs
           /\ secret_service = loaded.service
    /\ pc = "loop"
    /\ idx = 1
    /\ depth = 0
    /\ context_bound = TRUE
    /\ ctx_variables = ContextVariables(workflow)
    /\ ctx_stage_results = <<>>
    /\ ctx_connectors = [slot \in {"source", "target"} |->
                            IF slot = "source" THEN "ConcreteShipStationConnector"
                            ELSE "ConcreteInfiPlexConnector"]
    /\ execution = WorkflowExecution(total_stages(workflow.stages))
    /\ dispatches = [id \in StageIds |-> 0]
    /\ calls = <<>>
    /\ suspended = <<>>
    /\ mapped = NoMapping
    /\ initial_variables = NoVariables
    /\ clock = 0

NextCall ==
    \/ execute_stage_returns
    \/ execute_workflow_return

SpecCall == InitCall /\ [][NextCall]_vars

\* The stage a recorded call was made for, the signature of the method it
\* called, and the three sources of its arguments.
CallStage(call) == Stages[IndexOf(call.stage_id)]
CallSignature(call) == Signature(ctx_connectors[call.connector], call.method)
CallParameters(call) == from_parameters(CallStage(call))
CallVariables(call) == from_variables(CallStage(call), ctx_variables)
CallCredentials(call) ==
    InjectedCredentials(CallStage(call), integration_configs, CallSignature(call))

\* The values that are credentials: what Secret Manager holds.
CredentialValues == {Str(SecretManager[n]) : n \in DOMAIN SecretManager}

\* C11: a credential (api_key, base_url) is among the arguments of a connector
\* method call only when the method's signature declares a parameter of that
\* name: a call of a method that does not declare it carries no credential
\* value under that name.
C11_CredentialsOnlyWhenDeclared ==
    \A k \in 1..Len(calls) :
        \A c \in {"api_key", "base_url"} :
            c \notin CallSignature(calls[k]).params
                => ~(/\ c \in DOMAIN calls[k].args
                     /\ calls[k].args[c] \in CredentialValues)

\* A call of a method that takes **kwargs and declares no api_key, on a slot
\* whose credentials are loaded, that passes an api_key from another source.
C11_Witness ==
    \E k \in 1..Len(calls) :
        /\ calls[k].method = "read_inventory"
        /\ connector_type(CallStage(calls[k])) \in DOMAIN integration_configs
        /\ "api_key" \in DOMAIN calls[k].args
        /\ "base_url" \notin DOMAIN calls[k].args

\* The arguments of a call to a method without **kwargs are among its
\* declared parameters.
DeclaredOnly(call) ==
    ~CallSignature(call).kwargs
        => DOMAIN call.args \subseteq CallSignature(call).params

\* The arguments merged for a call: parameters, input variables, credentials.
Merged(call) ==
    Merge(Merge(CallParameters(call), CallVariables(call)), CallCredentials(call))

C14_LaterWins ==
    \A k \in 1..Len(calls) :
        \A n \in DOMAIN calls[k].args :
            calls[k].args[n] =
                IF n \in DOMAIN CallCredentials(calls[k])
                THEN CallCredentials(calls[k])[n]
                ELSE IF n \in DOMAIN CallVariables(calls[k])
                THEN CallVariables(calls[k])[n]
                ELSE CallParameters(calls[k])[n]

\* A run with a call whose api_key came from all three sources, and a call
\* whose api_key came from a parameter and a variable only.
C14_Witness ==
    /\ \E k \in 1..Len(calls) :
        /\ "api_key" \in DOMAIN CallParameters(calls[k])
        /\ "api_key" \in DOMAIN CallVariables(calls[k])
        /\ "api_key" \in DOMAIN CallCredentials(calls[k])
        /\ calls[k].args["api_key"] \in CredentialValues
    /\ \E k \in 1..Len(calls) :
        /\ "api_key" \in DOMAIN CallParameters(calls[k])
        /\ "api_key" \in DOMAIN CallVariables(calls[k])
        /\ "api_key" \notin DOMAIN CallCredentials(calls[k])
        /\ calls[k].args["api_key"] = Str("key-variable")

-----------------------------------------------------------------------------
(* Two runs of execute_workflow on one engine, each on its own thread *)

\* The locals of the thread that is running: everything execute_workflow
\* holds in local names and in the objects only they refer to.
Locals ==
    [workflow |-> workflow, pc |-> pc, idx |-> idx, depth |-> depth,
     context_bound |-> context_bound, ctx_variables |-> ctx_variables,
     ctx_stage_results |-> ctx_stage_results, ctx_connectors |-> ctx_connectors,
     execution |-> execution, dispatches |-> dispatches, calls |-> calls,
     initial_variables |-> initial_variables]

\* A call of execute_workflow that has not started.
NotStarted(wf) ==
    [workflow |-> wf, pc |-> "init", idx |-> 0, depth |-> 0,
     context_bound |-> FALSE, ctx_variables |-> NoVariables,
     ctx_stage_results |-> <<>>, ctx_connectors |-> NoConnectors,
     execution |-> NoExecution, dispatches |-> [id \in StageIds |-> 0],
     calls |-> <<>>, initial_variables |-> NoVariables]

\* The workflows of the two runs.  Each writes one variable with its first
\* stage and reads, in the condition of its second stage, the variable the
\* other workflow writes.
WorkflowA ==
    WorkflowConfig("custom", "custom",
        <<[StageConfig("s1", "log") EXCEPT
              !.parameters.message = "a", !.output_variable = "existing"],
          [StageConfig("s2", "log") EXCEPT
              !.parameters.message = "a", !.condition = Exists("new_items")]>>,
        Dict(NoVariables))
WorkflowB ==
    WorkflowConfig("custom", "custom",
        <<[StageConfig("s1", "log") EXCEPT
              !.parameters.message = "b", !.output_variable = "new_items"],
          [StageConfig("s2", "log") EXCEPT
              !.parameters.message = "b", !.condition = Exists("existing")]>>,
        Dict(NoVariables))

\* Two calls of execute_workflow on a new engine, while Secret Manager serves
\* every secret or fails on the InfiPlex key.
InitTwoRuns ==
    /\ InitRun({WorkflowA},
               {Remote(<<>>, <<>>, u) : u \in {{}, {"infiplex-api-key"}}})
    /\ suspended = <<NotStarted(WorkflowB)>>
    /\ mapped = NoMapping

\* The scheduler suspends the running thread and resumes the other one, which
\* has not returned yet.  The engine and the services are shared.
switch_thread ==
    /\ suspended # <<>>
    /\ suspended[1].pc \notin {"done", "raised"}
    /\ suspended' = <<Locals>>
    /\ workflow' = suspended[1].workflow
    /\ pc' = suspended[1].pc
    /\ idx' = suspended[1].idx
    /\ depth' = suspended[1].depth
    /\ context_bound' = suspended[1].context_bound
    /\ ctx_variables' = suspended[1].ctx_variables
    /\ ctx_stage_results' = suspended[1].ctx_stage_results
    /\ ctx_connectors' = suspended[1].ctx_connectors
    /\ execution' = suspended[1].execution
    /\ dispatches' = suspended[1].dispatches
    /\ calls' = suspended[1].calls
    /\ initial_variables' = suspended[1].initial_variables
    /\ UNCHANGED <<remote, integration_configs, secret_service, mapped, clock>>

\* Secret Manager serves again the secrets it failed on.
secret_manager_recovers ==
    /\ remote.unavailable # {}
    /\ remote' = [remote EXCEPT !.unavailable = {}]
    /\ UNCHANGED <<workflow, pc, idx, depth, context_bound, ctx_variables,
                   ctx_stage_results, ctx_connectors, execution, dispatches,
                   calls, integration_configs, secret_service, suspended,
                   mapped, initial_variables, clock>>

NextTwoRuns ==
    \/ execute_workflow_enter
    \/ execute_stage_returns
    \/ execute_workflow_return
    \/ switch_thread
    \/ secret_manager_recovers

SpecTwoRuns == InitTwoRuns /\ [][NextTwoRuns]_vars

\* A run is executing: it has entered execute_workflow and not left it.
Executing(run) == run.pc \in {"loop", "retry", "exit"}

\* C15: while a run is executing on the engine, no step of another run
\* changes the engine's integration_configs.
C15_CacheNotMutatedMidRun ==
    [][ (suspended # <<>> /\ Executing(suspended[1]))
            => integration_configs' = integration_configs ]_vars

\* The message of a run's log stages, the variable its first stage writes and
\* the variable the other run's first stage writes.
OwnMessage(run) == run.workflow.stages[1].parameters.message
OwnVariable(run) == run.workflow.stages[1].output_variable
OtherVariable(run) == run.workflow.stages[2].condition[2]

\* The run holds only what its own stages produced: its results are those of
\* its own stages, in order; the variable the other run writes is not in its
\* context, so its second stage is skipped; its connectors are its own.
Isolated(run) ==
    /\ run.ctx_variables[OtherVariable(run)] = Absent
    /\ run.ctx_variables[OwnVariable(run)]
           \in {Absent, Text(<<Lit(OwnMessage(run))>>)}
    /\ run.ctx_stage_results = run.execution.stage_results
    /\ Len(run.ctx_stage_results) <= 2
    /\ \A k \in 1..Len(run.ctx_stage_results) :
        LET r == run.ctx_stage_results[k]
        IN  /\ r.stage_id = run.workflow.stages[k].id
            /\ k = 1 => /\ r.status = "success"
                        /\ r.output_data = Text(<<Lit(OwnMessage(run))>>)
            /\ k = 2 => r.status = "skipped"
    /\ run.ctx_connectors = NoConnectors

-----------------------------------------------------------------------------
(* FieldTransformer (engine/transforms.py) on bounded inputs *)

\* str.upper() on the strings of the model.
Upper(value) ==
    CASE value = "a" -> "A"
      [] value = "x" -> "X"
      [] OTHER -> value

\* apply_transform (lines 17-63), for no transform and for "uppercase": a
\* value of None is returned as it is.
apply_transform(value, transform) ==
    IF transform = None \/ value = None THEN value
    ELSE IF transform = "uppercase" THEN Upper(value)
    ELSE value

\* A field mapping with mapping.get's defaults: no transform, required.
Mapping(source_field, target_field) ==
    [source_field |-> source_field, target_field |-> target_field,
     transform |-> None, required |-> TRUE]

EmptyItem == [f \in {} |-> ""]

\* map_fields (lines 66-104): the mappings applied in order to an empty
\* target; a mapping without source_field or target_field is passed over, and
\* so is a required mapping whose source value is None (the key is absent, or
\* present with the value None).
RECURSIVE map_fields(_, _)
map_fields(source_data, field_mappings) ==
    IF field_mappings = <<>> THEN EmptyItem
    ELSE LET mapping == field_mappings[Len(field_mappings)]
             target_data ==
                 map_fields(source_data,
                            SubSeq(field_mappings, 1, Len(field_mappings) - 1))
             source_value == DictGet(source_data, mapping.source_field)
         IN  IF Falsy(mapping.source_field) \/ Falsy(mapping.target_field)
             THEN target_data
             ELSE IF mapping.required /\ source_value = None
             THEN target_data
             ELSE Merge(target_data,
                        [f \in {mapping.target_field} |->
                            apply_transform(source_value, mapping.transform)])

\* The list of the mapped items without those that came out empty.
map_item_list_dropping_empty(source_items, field_mappings) ==
    LET NotEmpty(item) == map_fields(item, field_mappings) # EmptyItem
        kept == SelectSeq(source_items, NotEmpty)
    IN  [i \in 1..Len(kept) |-> map_fields(kept[i], field_mappings)]

\* map_item_list (lines 106-121).
map_item_list(source_items, field_mappings) ==
    [i \in 1..Len(source_items) |-> map_fields(source_items[i], field_mappings)]

\* Source items: sku absent, None or a string; name absent or a string.
SourceItems ==
    {EmptyItem, [sku |-> None], [sku |-> "a"], [name |-> "x"],
     [sku |-> None, name |-> "x"], [sku |-> "a", name |-> "x"]}

\* Field mappings: required and optional ones, two on the same target field,
\* one with a transform, one without a source_field.
FieldMappings ==
    {[Mapping("sku", "SKU") EXCEPT !.transform = "uppercase"],
     [Mapping("sku", "SKU") EXCEPT !.required = FALSE],
     Mapping("name", "title"),
     [Mapping("name", "title") EXCEPT !.required = FALSE, !.transform = "uppercase"],
     [Mapping(None, "title") EXCEPT !.required = FALSE],
     Mapping("sku", "title")}

InitMap ==
    /\ InitRun({WorkflowA}, {NothingRemote})
    /\ suspended = <<>>
    /\ mapped \in {[NoMapping EXCEPT !.source_items = items, !.field_mappings = fm] :
                      items \in SeqsUpTo(SourceItems, MaxMapItems),
                      fm \in SeqsUpTo(FieldMappings, MaxMappings)}

\* FieldTransformer.map_item_list(source_items, field_mappings) returns.
map_item_list_returns ==
    /\ ~mapped.returned
    /\ mapped' = [mapped EXCEPT
                     !.returned = TRUE,
                     !.result = map_item_list(mapped.source_items,
                                              mapped.field_mappings)]
    /\ UNCHANGED <<workflow, remote, pc, idx, depth, context_bound, ctx_variables,
                   ctx_stage_results, ctx_connectors, execution, dispatches,
                   calls, integration_configs, secret_service, suspended,
                   initial_variables, clock>>

NextMap == map_item_list_returns

SpecMap == InitMap /\ [][NextMap]_vars

\* The positions of the mappings that name both fields.
WellFormed(field_mappings) ==
    {k \in 1..Len(field_mappings) :
        /\ ~Falsy(field_mappings[k].source_field)
        /\ ~Falsy(field_mappings[k].target_field)}

\* C19 as stated: the result has the length of the input and output item i
\* holds exactly the target fields of the mappings whose source field is a key
\* of input item i or that are not required.
C19_Original ==
    mapped.returned =>
        /\ Len(mapped.result) = Len(mapped.source_items)
        /\ \A i \in 1..Len(mapped.result) :
            DOMAIN mapped.result[i] =
                {mapped.field_mappings[k].target_field :
                    k \in {j \in 1..Len(mapped.field_mappings) :
                              \/ mapped.field_mappings[j].source_field
                                     \in DOMAIN mapped.source_items[i]
                              \/ ~mapped.field_mappings[j].required}}

\* The positions of the mappings that apply to an item: those that name both
\* fields and whose source value is not None or that are not required.
Applied(item, field_mappings) ==
    {k \in WellFormed(field_mappings) :
        \/ DictGet(item, field_mappings[k].source_field) # None
        \/ ~field_mappings[k].required}

\* C19 as amended: the result has the length of the input; output item i holds
\* exactly the target fields of the mappings that name a source and a target
\* field and whose source field has a value other than None in input item i
\* or that are not required, and each such field holds the transformed source
\* value of the last such mapping.
C19_MapItemList ==
    mapped.returned =>
        /\ Len(mapped.result) = Len(mapped.source_items)
        /\ \A i \in 1..Len(mapped.result) :
            LET item == mapped.source_items[i]
                fm == mapped.field_mappings
                applied == Applied(item, fm)
            IN  /\ DOMAIN mapped.result[i] = {fm[k].target_field : k \in applied}
                /\ \A t \in DOMAIN mapped.result[i] :
                    LET last == CHOOSE k \in applied :
                                    /\ fm[k].target_field = t
                                    /\ \A j \in applied :
                                        fm[j].target_field = t => j <= k
                    IN  mapped.result[i][t] =
                            apply_transform(DictGet(item, fm[last].source_field),
                                            fm[last].transform)

\* A returned call on two items: every mapping was passed over for the first,
\* which came out empty, and applied to the second.
C19_Witness ==
    /\ mapped.returned
    /\ Len(mapped.source_items) = 2 /\ Len(mapped.field_mappings) = 2
    /\ mapped.result[1] = EmptyItem
    /\ Cardinality(DOMAIN mapped.result[2]) = 2

-----------------------------------------------------------------------------
(* The log stage on bounded inputs *)

LogMessages ==
    {"Found {len(x)} items", "{x}", "{y}", "{x} {y}", "{y} {x}",
     "{len(x)} {len(y)}", "plain"}

\* A workflow of one log stage over the variables x and y: absent, None,
\* strings (one of them the text of a placeholder) and lists.
LogWorkflows ==
    {WorkflowConfig("custom", "custom",
        <<[StageConfig("s1", "log") EXCEPT
              !.parameters.message = m, !.error_strategy = CONTINUE]>>,
        Dict([NoVariables EXCEPT !["x"] = x, !["y"] = y])) :
        m \in LogMessages,
        x \in {Absent, Null, Str("a"), Str("{y}"), List(<<>>),
               List(<<ItemA, ItemB, ItemA>>)},
        y \in {Absent, Str("b"), Str("{x}"), List(<<ItemA>>)}}

InitLog == InitWith(LogWorkflows, {NothingRemote})

NextLog ==
    \/ execute_workflow_enter
    \/ execute_stage_returns
    \/ execute_workflow_return

SpecLog == InitLog /\ [][NextLog]_vars

\* The message with every placeholder of a context variable replaced at once
\* by that variable's text: no text put in is looked at again.
SubstituteAll_at_once(message, variables, n) ==
    LET Piece(k) ==
            LET piece == message[k]
            IN  IF piece.t = "lit" \/ variables[piece.s].kind = "absent"
                THEN <<piece>>
                ELSE IF piece.t = "var" THEN str(variables[piece.s])
                ELSE IF variables[piece.s].kind = "list"
                THEN <<Lit(ToString(Len(variables[piece.s].elems)))>>
                ELSE <<Lit("N/A")>>
        Join[k \in 0..Len(message)] ==
            IF k = 0 THEN <<>> ELSE Join[k - 1] \o Piece(k)
    IN  Join[Len(message)]

\* C20: a log stage returns its message with every {len(v)} placeholder of a
\* context variable v replaced by the length of v when v is a list and by
\* "N/A" otherwise, and every {v} placeholder replaced by the string value of
\* v; with message "Found {len(x)} items" and x a list of three elements the
\* result is "Found 3 items".
C20_LogSubstitutes ==
    (Stages[1].type = "log" /\ Stages[1].parameters.message \in LogMessages
     /\ Len(ctx_stage_results) = 1) =>
        LET r == ctx_stage_results[1]
            message == Pieces(Stages[1].parameters.message)
        IN  /\ r.status = "success"
            /\ r.output_data =
                   Text(SubstituteAll_at_once(message, ctx_variables,
                                              Len(VariableOrder)))
            /\ (/\ Stages[1].parameters.message = "Found {len(x)} items"
                /\ ctx_variables["x"].kind = "list"
                /\ Len(ctx_variables["x"].elems) = 3)
                   => r.output_data =
                          Text(<<Lit("Found "), Lit("3"), Lit(" items")>>)

-----------------------------------------------------------------------------
(* The stage interpreter's error handling, seen from the driver *)

\* The step entered the type dispatch of the stage the driver is at, the
\* dispatch raised, and `out` is what it did.
DispatchRaised(out) ==
    /\ dispatches' # dispatches
    /\ out.raised
    /\ calls' = calls \o out.calls

\* C21: an exception raised while a stage is dispatched is caught inside
\* _execute_stage: the stage is tried again, or it yields a StageResult with
\* status failed whose error_message is the exception's message; no exception
\* of the stage reaches the except clause of execute_workflow.
C21_StageExceptionsCaught ==
    [][ CallingStage =>
        \A net \in NetOutcomes(stage, ctx_connectors) :
          LET out == Dispatch(stage, ctx_variables, ctx_connectors,
                              integration_configs, remote, net)
          IN  DispatchRaised(out)
                => \/ pc' = "retry"
                   \/ /\ Len(ctx_stage_results') = Len(ctx_stage_results) + 1
                      /\ LET r == ctx_stage_results'[Len(ctx_stage_results')]
                         IN  /\ r.stage_id = stage.id
                             /\ r.status = "failed"
                             /\ r.error_message = out.error
                      /\ execution'.stage_results = ctx_stage_results'
                      /\ execution'.error_message \in {<<>>, out.error} ]_vars

\* Stage i depends on an id that no stage up to and including i has: the
\* id of a later stage, or of no stage of the workflow.
DependsOnLaterOrMissing(i) ==
    \E dep \in Stages[i].depends_on : \A j \in 1..i : Stages[j].id # dep

\* C22: a stage whose depends_on names the id of a later stage of the list,
\* or an id no stage of the workflow has, is never executed in the run, also
\* when the later stage succeeds; the driver goes through the list once, in
\* declared order, and never goes back to a stage.
C22_LaterDependencyNeverRuns ==
    /\ [](\A i \in 1..Len(Stages) :
            DependsOnLaterOrMissing(i)
                => /\ ~Executed(i)
                   /\ EntriesOf(execution.stage_results, StageId(i)) = {})
    /\ [][idx' >= idx]_vars

\* A finished run that passed over one stage whose dependency is a later
\* stage, which then succeeded, and over another stage whose dependency is in
\* no stage of the workflow.
C22_Witness ==
    /\ pc = "done"
    /\ \E i, j, m \in 1..Len(Stages) :
        /\ i < j
        /\ Stages[i].enabled
        /\ Stages[j].id \in Stages[i].depends_on
        /\ \E k \in EntriesOf(ctx_stage_results, Stages[j].id) :
            ctx_stage_results[k].status = "success"
        /\ ~Executed(i)
        /\ Stages[m].enabled
        /\ \E dep \in Stages[m].depends_on :
            \A n \in 1..Len(Stages) : Stages[n].id # dep
        /\ ~Executed(m)

-----------------------------------------------------------------------------
(* Stages that fail, are tried again or are skipped, on bounded inputs *)

\* The connector and method of the first stage: a method the source
\* connector has, no connector, no method, a slot the context does not hold,
\* and a method the connector does not have.
ConnectorAndMethod ==
    {<<"source", "read_inventory">>, <<None, "read_inventory">>,
     <<"source", None>>, <<"other", "read_inventory">>,
     <<"source", "no_such_method">>}

\* The first stage: a connector_method stage that stores its output in
\* items, with or without a condition, with each error handling.
AttemptStages ==
    {[StageConfig("s1", "connector_method") EXCEPT
         !.connector = cm[1], !.method = cm[2], !.condition = c,
         !.output_variable = "items",
         !.error_strategy = e[1], !.retry_count = e[2]] :
        cm \in ConnectorAndMethod, c \in {NoCondition, Exists("flag")},
        e \in ErrorChoices}

\* The second stage, which also stores its output in items: a log stage
\* (its output is the message), or a filter stage whose input variable is
\* existing (its output is that variable's value, None when it is not set).
FollowStages ==
    {[StageConfig("s2", "log") EXCEPT
         !.parameters.message = "m", !.output_variable = "items"],
     [StageConfig("s2", "filter") EXCEPT
         !.input_variables = <<"existing">>, !.output_variable = "items"]}

AttemptWorkflows(source_type) ==
    {WorkflowConfig(source_type, "custom", <<s1, s2>>,
        Dict([NoVariables EXCEPT !["flag"] = f, !["items"] = i,
                                 !["existing"] = x])) :
        s1 \in AttemptStages, s2 \in FollowStages,
        f \in {Absent, Str("yes")}, i \in {Absent, List(<<ItemB>>)},
        x \in {Absent, List(<<Scalar("A")>>)}}

\* A call of execute_workflow for a workflow without registered service
\* type (no connector is created), or a run at its first stage whose context
\* holds an instance of a concrete subclass in the source slot.
InitAttempt ==
    \/ InitWith(AttemptWorkflows("custom"), {Remote(<<ItemA>>, <<>>, {})})
    \/ /\ workflow \in AttemptWorkflows("shipstation")
       /\ remote = Remote(<<ItemA>>, <<>>, {})
       /\ LET loaded == load_integration_configs(NoConfigs, SecretManagerService,
                                                 remote.unavailable)
          IN  /\ integration_configs = loaded.configs
              /\ secret_service = loaded.service
       /\ pc = "loop"
       /\ idx = 1
       /\ depth = 0
       /\ context_bound = TRUE
       /\ ctx_variables = ContextVariables(workflow)
       /\ ctx_stage_results = <<>>
       /\ ctx_connectors = [slot \in {"source"} |-> "ConcreteShipStationConnector"]
       /\ execution = WorkflowExecution(total_stages(workflow.stages))
       /\ dispatches = [id \in StageIds |-> 0]
       /\ calls = <<>>
       /\ suspended = <<>>
       /\ mapped = NoMapping
       /\ initial_variables = NoVariables
       /\ clock = 0

NextAttempt ==
    \/ execute_workflow_enter
    \/ execute_stage_returns
    \/ execute_stage_retries
    \/ execute_stage_overflows
    \/ execute_workflow_return

SpecAttempt == InitAttempt /\ [][NextAttempt]_vars

\* The step is an attempt of the stage the driver is at, made after at least
\* one failed attempt, still within the retry_count + 1 attempts the stage is
\* allowed, and the external service served its call.
RetrySucceeds ==
    /\ pc = "retry"
    /\ dispatches'[stage.id] = dispatches[stage.id] + 1
    /\ dispatches'[stage.id] <= stage.retry_count + 1
    /\ Len(calls') = Len(calls) + 1
    /\ calls'[Len(calls')].outcome = "ok"

ConditionIsFalse ==
    /\ CallingStage
    /\ Len(stage.condition) = 2
    /\ stage.condition[1] = "exists:"
    /\ ~Truthy(get_variable(ctx_variables, stage.condition[2]))

\* C25: a stage whose condition is set and evaluates false returns status
\* skipped without being dispatched: no connector method is called, no context
\* variable is written, the result is counted in skipped_stages and in no
\* other counter, and the run goes on with the next stage whatever the stage's
\* error_strategy.
C25_FalseConditionSkips ==
    [][ ConditionIsFalse
          => /\ ctx_stage_results' =
                    Append(ctx_stage_results, StageResult(stage.id, "skipped"))
             /\ execution'.stage_results =
                    Append(execution.stage_results, StageResult(stage.id, "skipped"))
             /\ dispatches' = dispatches
             /\ calls' = calls
             /\ ctx_variables' = ctx_variables
             /\ execution'.skipped_stages = execution.skipped_stages + 1
             /\ execution'.failed_stages = execution.failed_stages
             /\ execution'.completed_stages = execution.completed_stages
             /\ execution'.status = "running"
             /\ pc' = "loop" /\ idx' = idx + 1 ]_vars

\* A finished run whose first stage, a read on a connector the context holds
\* with error_strategy fail, was skipped for its condition, and whose second
\* stage was executed.
C25_Witness ==
    /\ pc = "done"
    /\ Stages[1].error_strategy = FAIL
    /\ Stages[1].condition = Exists("flag")
    /\ Stages[1].connector \in DOMAIN ctx_connectors
    /\ Stages[1].method = "read_inventory"
    /\ Len(ctx_stage_results) = 2
    /\ ctx_stage_results[1].status = "skipped"
    /\ ctx_stage_results[2].status = "success"
    /\ execution.skipped_stages = 1
    /\ execution.status = "completed"
    /\ calls = <<>>

\* C26: a stage of a type no branch of the dispatch handles (the reserved
\* types condition and loop among them) that is dispatched ends with status
\* failed: in the finished run it has a StageResult, failed and never success
\* or skipped, carrying the "Unknown stage type" error, and the failure is
\* handled by the stage's error_strategy (with strategy fail it ends the run
\* and is the run's error).
C26_UnknownTypeFails ==
    Finished =>
        \A i \in 1..Len(Stages) :
            (Stages[i].type \in {"condition", "loop"} /\ dispatches[StageId(i)] > 0)
                => /\ HasResult(StageId(i))
                   /\ \A k \in EntriesOf(ctx_stage_results, StageId(i)) :
                        /\ ctx_stage_results[k].status = "failed"
                        /\ ctx_stage_results[k].error_message =
                               <<"ValueError", "Unknown stage type", Stages[i].type>>
                        /\ Stages[i].error_strategy = FAIL
                               => /\ k = Len(ctx_stage_results)
                                  /\ execution.status = "failed"
                                  /\ execution.error_message =
                                         ctx_stage_results[k].error_message

\* The connector_method stage i cannot reach a connector method: it lacks
\* connector or method, names a slot the context does not hold, or names a
\* method the connector in the slot does not have.
CannotCall(i) ==
    /\ Stages[i].type = "connector_method"
    /\ \/ Falsy(Stages[i].connector)
       \/ Falsy(Stages[i].method)
       \/ Stages[i].connector \notin DOMAIN ctx_connectors
       \/ Stages[i].method \notin ClassMethods(ctx_connectors[Stages[i].connector])

\* C27: a connector_method stage that lacks connector or method, names a slot
\* that was not registered, or names a method the connector does not have,
\* ends as a failed stage handled by its error_strategy: once dispatched, the
\* finished run has a failed StageResult for it, no run-level error was raised
\* (the run's error_message is empty or that of a failed fail-strategy stage),
\* and no connector method was invoked for it.
C27_BadConnectorStageFails ==
    pc = "done" =>
        \A i \in 1..Len(Stages) :
            (CannotCall(i) /\ dispatches[StageId(i)] > 0)
                => /\ FailedAt(i)
                   /\ \A k \in 1..Len(calls) : calls[k].stage_id # StageId(i)
                   /\ \/ execution.error_message = <<>>
                      \/ \E k \in 1..Len(ctx_stage_results) :
                            /\ ctx_stage_results[k].status = "failed"
                            /\ Stages[IndexOf(ctx_stage_results[k].stage_id)]
                                   .error_strategy = FAIL
                            /\ execution.error_message =
                                   ctx_stage_results[k].error_message

\* The step recorded a success result for the stage the driver is at, and
\* the stage names an output variable.
StoresOutput ==
    /\ Len(ctx_stage_results') = Len(ctx_stage_results) + 1
    /\ ctx_stage_results'[Len(ctx_stage_results')].status = "success"
    /\ stage.output_variable # None

\* C28: after a stage with output_variable set succeeds with an output that
\* is not None the context variable of that name is the output; when the
\* output is None the variable keeps the value it had before the stage.  No
\* other variable changes.
C28_OutputVariable ==
    [][ StoresOutput
          => LET output == ctx_stage_results'[Len(ctx_stage_results')].output_data
             IN  /\ output.kind # "null"
                    => ctx_variables'[stage.output_variable] = output
                 /\ output.kind = "null"
                    => ctx_variables'[stage.output_variable]
                           = ctx_variables[stage.output_variable]
                 /\ \A v \in VarNames \ {stage.output_variable} :
                        ctx_variables'[v] = ctx_variables[v] ]_vars

\* A finished run whose first stage stored the items it read and whose
\* second stage, a filter without input, returned None: the variable still
\* holds the items of the first stage.
C28_Witness ==
    /\ pc = "done"
    /\ Len(ctx_stage_results) = 2
    /\ ctx_stage_results[1].status = "success"
    /\ ctx_stage_results[1].output_data = List(<<ItemA>>)
    /\ workflow.variables.map["items"] = List(<<ItemB>>)
    /\ Stages[2].type = "filter" /\ Stages[2].output_variable = "items"
    /\ ctx_stage_results[2].status = "success"
    /\ ctx_stage_results[2].output_data = Null
    /\ ctx_variables["items"] = List(<<ItemA>>)

-----------------------------------------------------------------------------
(* The execution record's list of results and its counters *)

\* The number of entries of the execution's stage_results with a status.
CountOf(status) ==
    Cardinality({k \in 1..Len(execution.stage_results) :
                    execution.stage_results[k].status = status})

\* C29: at every point of a run and in the returned record completed_stages,
\* failed_stages and skipped_stages are the numbers of entries of
\* stage_results with status success, failed and skipped, so their sum is the
\* length of stage_results and is at most total_stages; passing over a stage
\* for unmet dependencies changes no counter and adds no entry.
C29_CountersMatchResults ==
    /\ [](/\ execution.completed_stages = CountOf("success")
          /\ execution.failed_stages = CountOf("failed")
          /\ execution.skipped_stages = CountOf("skipped")
          /\ execution.completed_stages + execution.failed_stages
                 + execution.skipped_stages = Len(execution.stage_results)
          /\ Len(execution.stage_results) <= execution.total_stages)
    /\ [][ (/\ AtStage /\ stage.enabled
            /\ \E dep \in stage.depends_on :
                 \A k \in EntriesOf(ctx_stage_results, dep) :
                     ctx_stage_results[k].status # "success")
           => execution' = execution /\ idx' = idx + 1 ]_vars

\* A returned record with one failed and one skipped result and a third
\* stage, enabled, that was passed over for its dependency on the failed one.
C29_Witness ==
    /\ pc = "done"
    /\ execution.failed_stages = 1
    /\ execution.skipped_stages = 1
    /\ execution.completed_stages = 0
    /\ execution.total_stages = 3
    /\ Len(execution.stage_results) = 2
    /\ \E i \in 1..Len(Stages) :
        /\ Stages[i].enabled /\ Stages[i].depends_on # {}
        /\ ~Executed(i)

\* The ids of a list of results are in the declared order of the stages,
\* each at most once.
InDeclaredOrder(results) ==
    \A k, l \in 1..Len(results) :
        k < l => IndexOf(results[k].stage_id) < IndexOf(results[l].stage_id)

\* `after` is `before`, or `before` with one entry added at the end.
Extends(before, after) ==
    \/ after = before
    \/ /\ Len(after) = Len(before) + 1
       /\ SubSeq(after, 1, Len(before)) = before

\* C30: stage_results, of the execution and of the context, is append-only
\* during a run: a step leaves it as it is or adds one entry at its end, so an
\* entry already there is never changed or removed; each stage id appears at
\* most once, and the stage ids appear in the declared order of the stages.
C30_ResultsAppendOnly ==
    /\ [][ /\ Extends(execution.stage_results, execution'.stage_results)
           /\ Extends(ctx_stage_results, ctx_stage_results') ]_vars
    /\ [](/\ InDeclaredOrder(execution.stage_results)
          /\ InDeclaredOrder(ctx_stage_results))

\* A finished run that recorded the first and the third stage and passed
\* over the second.
C30_Witness ==
    /\ pc = "done"
    /\ Len(Stages) = 3
    /\ Len(execution.stage_results) = 2
    /\ execution.stage_results[1].stage_id = "s1"
    /\ execution.stage_results[2].stage_id = "s3"
    /\ ctx_stage_results = execution.stage_results

-----------------------------------------------------------------------------
(* Transform, filter, map_fields and set_variable stages on bounded inputs *)

\* The type and parameters of the first stage: each transform_type (none
\* given, and one no branch knows, among them), a filter by a static value,
\* map_fields with no mapping, a plain rename and a rename onto a key the
\* items may have, and set_variable with and without a variable name, its
\* value None, a string, or a dict with the key items.
DataStageKinds ==
    {<<"transform", NoParameters>>,
     <<"transform", [NoParameters EXCEPT !.transform_type = "reverse"]>>,
     <<"transform", [NoParameters EXCEPT !.transform_type = "extract_field",
                                         !.field = "sku"]>>,
     <<"transform", [NoParameters EXCEPT !.transform_type = "filter_field",
                                         !.field = "sku", !.value = Str("A")]>>,
     <<"transform", [NoParameters EXCEPT !.transform_type = "add_field",
                                         !.field = "warehouse_id",
                                         !.value = Str("17")]>>,
     <<"transform", [NoParameters EXCEPT !.transform_type = "slice"]>>,
     <<"transform", [NoParameters EXCEPT !.transform_type = "slice",
                                         !.start = 1, !.end = 2]>>,
     <<"filter", [NoParameters EXCEPT !.field = "sku", !.value = Str("A")]>>}
    \cup {<<"map_fields", [NoParameters EXCEPT !.mappings = m]>> :
            m \in {[k \in {} |-> ""], [k \in {"sku"} |-> "id"],
                   [k \in {"sku"} |-> "name"]}}
    \cup {<<"set_variable", [NoParameters EXCEPT !.variable_name = n,
                                                 !.value = v]>> :
            n \in {None, "flag"},
            v \in {Null, Str("A"), Object([f \in {"items"} |-> None]),
                   Object([f \in {"items"} |-> "ab"])}}

\* The first stage reads items and stores its output nowhere, in new_items,
\* or in items itself.
DataStages ==
    {[StageConfig("s1", k[1]) EXCEPT
         !.parameters = k[2], !.input_variables = <<"items">>,
         !.output_variable = o, !.error_strategy = CONTINUE] :
        k \in DataStageKinds, o \in {None, "new_items", "items"}}

\* The second stage: as add-warehouse-18-id of the multi-warehouse workflow
\* (scripts/create_multi_warehouse_sync_workflow.py 186-198), an add_field
\* transform that reads the variable the first stage read.
AddWarehouse18Stage ==
    [StageConfig("s2", "transform") EXCEPT
        !.parameters.transform_type = "add_field",
        !.parameters.field = "warehouse_id", !.parameters.value = Str("18"),
        !.input_variables = <<"items">>, !.output_variable = "existing",
        !.error_strategy = CONTINUE]

\* Elements of an input list: dict items, and a string.
DataElements == {ItemA, ItemA2, ItemN, Scalar("A")}

\* The value of items: not set, None, a string, a dict, or a list.
DataInputs ==
    {Absent, Null, Str("A"), Object(ItemA2)}
    \cup {List(l) : l \in SeqsUpTo(DataElements, MaxDataItems)}

DataWorkflows ==
    {WorkflowConfig("custom", "custom", <<s1, AddWarehouse18Stage>>,
                    Dict([NoVariables EXCEPT !["items"] = i, !["flag"] = f])) :
        s1 \in DataStages, i \in DataInputs, f \in {Absent, Str("no")}}

InitData == InitWith(DataWorkflows, {NothingRemote})

NextData ==
    \/ execute_workflow_enter
    \/ execute_stage_returns
    \/ execute_workflow_return

SpecData == InitData /\ [][NextData]_vars

\* The value the first stage read: the context's items when the run began
\* (the caller's initial_variables of the model do not name items).
DataInput == get_variable(workflow.variables.map, "items")

\* The first stage is a transform stage and its input does not have the shape
\* its transform_type works on: extract_field or filter_field on a list with
\* an item that is not a dict, or any transform_type on an input that is
\* neither a list nor a dict.
WrongShape ==
    /\ Stages[1].type = "transform"
    /\ \/ /\ Stages[1].parameters.transform_type \in {"extract_field", "filter_field"}
          /\ DataInput.kind = "list"
          /\ \E k \in 1..Len(DataInput.elems) : ~IsDict(DataInput.elems[k])
       \/ DataInput.kind \notin {"list", "object"}

\* C31: a transform stage applied to an input whose shape does not fit its
\* transform_type succeeds and returns the unmodified input.
C31_WrongShapePassesThrough ==
    (WrongShape /\ Len(ctx_stage_results) >= 1)
        => /\ ctx_stage_results[1].status = "success"
           /\ ctx_stage_results[1].output_data = DataInput

\* C32: the variables of a new context are those of workflow.variables
\* overlaid with the caller's initial_variables: a name the caller gives has
\* the caller's value, any other name the workflow's.
C32_InitialVariablesOverlay ==
    [][(pc = "init" /\ context_bound')
        => \A v \in VarNames :
            ctx_variables'[v] =
                IF initial_variables'[v].kind # "absent"
                THEN initial_variables'[v] ELSE workflow.variables.map[v]]_vars

\* A context just created for a call whose initial_variables name flag with
\* another value than the workflow's, while the workflow alone names items.
C32_Witness ==
    /\ pc = "loop" /\ idx = 1 /\ ctx_stage_results = <<>>
    /\ workflow.variables.map["flag"] = Str("no")
    /\ initial_variables["flag"] = Str("yes")
    /\ ctx_variables["flag"] = Str("yes")
    /\ workflow.variables.map["items"].kind = "list"
    /\ initial_variables["items"].kind = "absent"
    /\ ctx_variables["items"] = workflow.variables.map["items"]

C35_MapFieldsOnePerItem ==
    (/\ Stages[1].type = "map_fields"
     /\ DataInput.kind = "list"
     /\ Len(ctx_stage_results) >= 1)
        => LET out == ctx_stage_results[1].output_data
               fm == Stages[1].parameters.mappings
               NewName(f) == IF f \in DOMAIN fm THEN fm[f] ELSE f
           IN  /\ out.kind = "list"
               /\ Len(out.elems) = Len(DataInput.elems)
               /\ \A k \in 1..Len(out.elems) :
                    \A f \in DOMAIN DataInput.elems[k] :
                        /\ NewName(f) \in DOMAIN out.elems[k]
                        /\ out.elems[k][NewName(f)] = DataInput.elems[k][f]

\* C36: an attempt of a stage that ends failed, whether its result is
\* recorded or the stage is tried again, leaves the context's variables as
\* they were before the attempt.
C36_FailedAttemptLeavesVariables ==
    [][(\/ /\ Len(ctx_stage_results') = Len(ctx_stage_results) + 1
           /\ ctx_stage_results'[Len(ctx_stage_results')].status = "failed"
        \/ /\ dispatches' # dispatches
           /\ ctx_stage_results' = ctx_stage_results)
        => ctx_variables' = ctx_variables]_vars

\* The step executes a transform, filter or map_fields stage that has an
\* input variable.
DataStageActs ==
    /\ CallingStage
    /\ stage.type \in {"transform", "filter", "map_fields"}
    /\ stage.input_variables # <<>>
    /\ Len(ctx_stage_results') = Len(ctx_stage_results) + 1

\* C38 as stated: a transform, filter or map_fields stage never changes the
\* value of its input variable.
C38_Original ==
    [][DataStageActs
        => ctx_variables'[stage.input_variables[1]]
             = ctx_variables[stage.input_variables[1]]]_vars

\* C38: a transform, filter or map_fields stage whose output_variable is not
\* its input variable leaves the input variable's value as it was; every
\* other variable than its output_variable keeps its value too.
C38_InputVariableKept ==
    [][DataStageActs
        => \A v \in VarNames \ {stage.output_variable} :
             ctx_variables'[v] = ctx_variables[v]]_vars

\* A finished run whose two add_field stages read the same list of dict
\* items: one output has warehouse_id 17, the other 18, the input neither.
C38_Witness ==
    /\ pc = "done"
    /\ Stages[1].parameters.transform_type = "add_field"
    /\ Stages[1].output_variable = "new_items"
    /\ ctx_variables["items"] = List(<<ItemA, ItemA2>>)
    /\ ctx_variables["new_items"].kind = "list"
    /\ \A k \in 1..2 : ctx_variables["new_items"].elems[k]["warehouse_id"] = "17"
    /\ ctx_variables["existing"].kind = "list"
    /\ \A k \in 1..2 : ctx_variables["existing"].elems[k]["warehouse_id"] = "18"

-----------------------------------------------------------------------------
(* Dependencies through a chain of depends_on *)

\* The ids a stage id depends on, directly or (n more steps) through the
\* depends_on of the stages it depends on.
RECURSIVE DependsOnWithin(_, _)
DependsOnWithin(ids, n) ==
    LET direct == UNION {Stages[i].depends_on :
                            i \in {k \in 1..Len(Stages) : Stages[k].id \in ids}}
    IN  IF n = 0 THEN direct
        ELSE direct \cup DependsOnWithin(direct, n - 1)

\* Every id stage i depends on, directly or through a chain.
DependsOnChain(i) == DependsOnWithin({Stages[i].id}, Len(Stages))

\* The stage with this id ended with status success: an entry of the
\* context's stage_results says so.
EndedSuccess(id) ==
    \E k \in EntriesOf(ctx_stage_results, id) :
        ctx_stage_results[k].status = "success"

\* C37: a stage is executed only when every stage it depends on, directly or
\* through a chain of depends_on, has ended with status success; so a stage
\* that failed, was skipped, was disabled or was not executed has no executed
\* dependent.
C37_NoDependentOfUnsuccessful ==
    \A i \in 1..Len(Stages) :
        Executed(i) => \A dep \in DependsOnChain(i) : EndedSuccess(dep)

\* A finished run, not halted, in which s1 failed, s2 depends on s1, s3
\* depends on s2 only, and neither s2 nor s3 was executed.
C37_Witness ==
    /\ pc = "done"
    /\ execution.status = "completed"
    /\ Stages[2].enabled /\ Stages[2].depends_on = {"s1"}
    /\ Stages[3].enabled /\ Stages[3].depends_on = {"s2"}
    /\ \E k \in EntriesOf(ctx_stage_results, "s1") :
        ctx_stage_results[k].status = "failed"
    /\ ~Executed(2) /\ ~Executed(3)

-----------------------------------------------------------------------------
(* The service a slot is bound to and the credentials its calls get *)

\* The call workflows as they are, source bound to ShipStation and target to
\* InfiPlex, and with the two service types exchanged.
BindingWorkflows ==
    CallWorkflows
    \cup {[wf EXCEPT !.source.service_type = "infiplex",
                     !.target.service_type = "shipstation"] :
             wf \in CallWorkflows}

\* A run at its first stage, the integration configurations loaded and each
\* slot holding an instance of a concrete subclass of the class registered
\* for the service type the workflow binds to the slot (lines 246-264).
InitBinding ==
    /\ workflow \in BindingWorkflows
    /\ remote = Remote(<<ItemA>>, <<>>, {})
    /\ LET loaded == load_integration_configs(NoConfigs, SecretManagerService,
                                              remote.unavailable)
       IN  /\ integration_configs = loaded.configs
           /\ secret_service = loaded.service
    /\ pc = "loop"
    /\ idx = 1
    /\ depth = 0
    /\ context_bound = TRUE
    /\ ctx_variables = ContextVariables(workflow)
    /\ ctx_stage_results = <<>>
    /\ ctx_connectors = [slot \in {"source", "target"} |->
                            IF workflow[slot].service_type = "shipstation"
                            THEN "ConcreteShipStationConnector"
                            ELSE "ConcreteInfiPlexConnector"]
    /\ execution = WorkflowExecution(total_stages(workflow.stages))
    /\ dispatches = [id \in StageIds |-> 0]
    /\ calls = <<>>
    /\ suspended = <<>>
    /\ mapped = NoMapping
    /\ initial_variables = NoVariables
    /\ clock = 0

NextBinding ==
    \/ execute_stage_returns
    \/ execute_workflow_return

SpecBinding == InitBinding /\ [][NextBinding]_vars

-----------------------------------------------------------------------------
(* Execution ids of two runs *)

\* Workflows of one log stage, told apart by their id.
IdWorkflows ==
    {[WorkflowConfig("custom", "custom",
                     <<[StageConfig("s1", "log") EXCEPT !.parameters.message = "m"]>>,
                     Dict(NoVariables))
         EXCEPT !.id = i] : i \in {"wf-a", "wf-b"}}

\* Two calls of execute_workflow on one engine, for the same workflow or for
\* two workflows.
InitIds ==
    /\ InitRun(IdWorkflows, {NothingRemote})
    /\ suspended \in {<<NotStarted(wf)>> : wf \in IdWorkflows}
    /\ mapped = NoMapping

\* A second passes on the system clock.
clock_ticks ==
    /\ clock < MaxClock
    /\ clock' = clock + 1
    /\ UNCHANGED <<workflow, remote, pc, idx, depth, context_bound, ctx_variables,
                   ctx_stage_results, ctx_connectors, execution, dispatches,
                   calls, integration_configs, secret_service, suspended,
                   mapped, initial_variables>>

NextIds ==
    \/ execute_workflow_enter
    \/ execute_stage_returns
    \/ execute_workflow_return
    \/ switch_thread
    \/ clock_ticks

SpecIds == InitIds /\ [][NextIds]_vars

\* C40: once both runs have their execution record, the two records have
\* different ids.
C40_DistinctExecutionIds ==
    (/\ execution.status # "none"
     /\ suspended # <<>>
     /\ suspended[1].execution.status # "none")
        => execution.id # suspended[1].execution.id

====
